---- MODULE Spec2Model ----
(***************************************************************************)
(* A model of the kscale client library: the multipart upload of K-Recs   *)
(* and K-Clips (kscale/web/krec.py, kscale/web/kclip.py), the robot-class  *)
(* URDF download cache (kscale/web/clients/robot_class.py), the K-Rec and  *)
(* kernel-image downloads (kscale/web/krec.py, kscale/web/kernels.py) and  *)
(* the bearer-token acquisition with its OAuth implicit flow               *)
(* (kscale/web/clients/base.py, kscale/web/token.py).                      *)
(*                                                                         *)
(* Each subsystem has its own specification over the shared variables:     *)
(*   SpecUpload    the multipart upload coordinator                        *)
(*   SpecDownload  the download and cache manager                          *)
(*   Spec          token acquisition, OAuth flow, authenticated requests   *)
(***************************************************************************)
EXTENDS Integers, Sequences, FiniteSets, TLC

\* ------------------------------------------------------------------------
\* Multipart upload: upload_krec (krec.py) and upload_kclip (kclip.py)
\* ------------------------------------------------------------------------
VARIABLES
    upKind,            \* "krec" (krec.py + www_client.py) or "kclip" (kclip.py + client.py)
    file_size,         \* size of the file at file_path, in MiB
    upPc,              \* position of the upload coroutine
    create_response,   \* upload_details of the create response: part_size, presigned_urls
    urlIdx,            \* index of the next entry of presigned_urls the for loop visits
    filePos,           \* read offset of f (the file is read sequentially)
    puts,              \* history of the part PUTs sent to presigned URLs
    completed_parts,   \* the list completed_parts
    completeCalls,     \* history of the requests sent to the completion endpoint
    httpState,         \* lifecycle of the httpx.AsyncClient held by KScaleStoreClient
    shot,              \* the most recent single-shot upload: its file, its requests, how it ended
    upErr,             \* the exception that left the upload function, or "none"
    envFault           \* TRUE once the environment answered a request with a failure

upVars == <<upKind, file_size, upPc, create_response, urlIdx, filePos, puts,
            completed_parts, completeCalls, httpState, shot, upErr, envFault>>

VARIABLES
    dlKind,        \* the artifact family this cache directory belongs to
    srvContent,    \* the content the server currently holds for the robot class
    tgz,           \* <robots dir>/<class>/robot.tgz
    info,          \* <robots dir>/<class>/.info.json
    krecInfo,      \* <artifact dir>/response.json of the K-Rec
    krecFile,      \* <artifact dir>/<filename> of the K-Rec
    kimgInfo,      \* <artifact dir>/response.json of the kernel image
    kimgFile,      \* <artifact dir>/<name>.img
    urdfInfo,      \* <artifact dir>/response.json of the URDF artifact
    unpack,        \* <robots dir>/<class>/robot/: the files extracted into it and its .info.json
    xlast,         \* what the most recent download_and_extract_urdf call found and did
    cacheFs,       \* get_cache_dir(): whether it exists and the artifact directories in it
    rmLast,        \* what the most recent remove_local_* call found and left
    tokCoro,       \* the coroutine object functools.lru_cache holds for token.get_bearer_token()
    last,          \* what the most recent download call did
    prev,          \* operation and result of the call before it
    changedSince,  \* the server content or the cached files were changed since the last call
    tampered       \* robot.tgz was altered by something other than a download call

dlVars == <<dlKind, srvContent, tgz, info, krecInfo, krecFile, kimgInfo, kimgFile,
            urdfInfo, unpack, xlast, cacheFs, rmLast, tokCoro, last, prev, changedSince,
            tampered>>

\* Token acquisition, OAuth flow, authenticated requests (declared below in
\* the order the code keeps them).
VARIABLES
    now,           \* the clock (time.time()), in units of 12 hours
    impl,          \* "base": BaseClient of clients/base.py; "token": the functions of token.py
    use_cache,     \* BaseClient.use_cache / the use_cache argument
    apiKey,        \* KSCALE_API_KEY is set in the environment
    browser,       \* webbrowser.get().name: "ok" or "null" (headless)
    port,          \* the owner of the callback port: "free", "other", "ours", "leaked"
    tokenFile,     \* bearer_token.txt
    tokenMode,     \* its permission bits, now and right after the last write_text of the process
    acq,           \* the cache entry of get_bearer_token: "empty", "pending", "done"
    acqVal,        \* the token the cached acquisition produced
    tpc,           \* position of the running get_bearer_token coroutine
    runner,        \* web.AppRunner of the current flow: "none", "setup", "cleaned"
    access_token,  \* OAuthCallback.access_token
    elapsed,       \* time.time() - start_time of the wait loop, in seconds
    flowRuns,      \* how many times _get_bearer_token was entered
    flowExit,      \* how the most recent _get_bearer_token ended
    authFault,     \* TRUE once the environment made an acquisition fail
    callerPc,      \* position of each caller
    callerTok,     \* the token each caller last received
    client,        \* BaseClient._client: the headers of the authenticated AsyncClient
    clientsCreated,\* how many authenticated AsyncClients were built
    lastReq,       \* the most recent authenticated request sent
    verbose,       \* KSCALE_VERBOSE_ERROR is "1"
    lastResp,      \* the response to the most recent _request and how _request ended
    steps,         \* what the running acquisition did so far: discovery requests, binds, browser opens
    capturedAt,    \* `elapsed` when /token first stored an access_token in this flow, -1 if never
    acqPre,        \* the token file as the running get_bearer_token found it
    expCheck,      \* the most recent _is_token_expired call: token, time, answer
    oauth,         \* state and nonce of the authorization URL of the current flow
    stateFile,     \* oauth_state.json
    cbState,       \* OAuthCallback.state
    disc           \* OIDC discovery: the documents on disk and in memory, the requests sent

authVars == <<impl, use_cache, apiKey, browser, port, tokenFile, tokenMode, acq, acqVal, tpc, runner,
              access_token, elapsed, flowRuns, flowExit, authFault, callerPc, callerTok,
              client, clientsCreated, lastReq, verbose, lastResp, steps, capturedAt,
              acqPre, expCheck, oauth, stateFile, cbState, disc>>

\* Client lifecycle, cache files shared by processes, teleop signalling.
VARIABLES
    baseClient,    \* BaseClient._client, ._client_no_auth and every AsyncClient it built
    cacheFile,     \* one file of the auth directory, as two processes see it
    procs,         \* position and result of each of the two processes
    rooms,         \* WebRTCSignalingServer.rooms: the entry of the room
    peers          \* the two WebRTCClients: candidates gathered, posted, added

extVars == <<baseClient, cacheFile, procs, rooms, peers>>

vars == <<upVars, dlVars, authVars, extVars, now>>

\* Part size declared in the create request, in MiB (5 * 1024 * 1024 bytes).
DEFAULT_CHUNK_SIZE == 5

\* Largest file size explored, in MiB.
MaxFileSize == 12

\* How many presigned URLs beyond ceil(file_size / part_size) a server may list.
MaxExtraUrls == 1

\* A part size other than the declared one that a server may answer with.
AltPartSize == 3

CeilDiv(a, b) == (a + b - 1) \div b

Min(a, b) == IF a < b THEN a ELSE b

UpKinds == {"krec", "kclip"}

\* What the blob store answers to a part PUT.
PutOutcomes == {"ok", "http_error", "transport_error", "no_etag"}

\* The ETag header of the response to the PUT of the bytes at offset off:
\* a quoted string.
ETagHeader(off) == <<"\"", off, "\"">>

\* etag.strip('"')
StripQuotes(etag) == IF Len(etag) = 3 /\ etag[1] = "\"" /\ etag[3] = "\"" THEN etag[2] ELSE etag

\* Every entry filed with the ETag of the PUT of the first chunk.
CompletedPartFirstETag(part_number, off) ==
    [part_number |-> part_number, etag |-> StripQuotes(ETagHeader(0))]

\* KRecPartCompleted(part_number=part_number, etag=etag.strip('"'), ...) built
\* from the response to the PUT of the chunk read at offset off.
CompletedPart(part_number, off) ==
    [part_number |-> part_number, etag |-> StripQuotes(ETagHeader(off))]

\* The number of parts the declared sizes call for.
ExpectedParts == CeilDiv(file_size, DEFAULT_CHUNK_SIZE)

\* The create response follows the server contract: the declared part size,
\* one URL per part, numbered 1..n in order.
ServerConforms ==
    /\ create_response.part_size = DEFAULT_CHUNK_SIZE
    /\ create_response.presigned_urls = [i \in 1..ExpectedParts |-> i]

\* No single-shot upload was called. `presigned` counts the requests for a
\* presigned URL, `puts` lists what each PUT to it carried, `infos` counts the
\* get_artifact_info requests.
NoShot == [kind |-> "none", path |-> "none", suffix |-> "none", result |-> "none",
           presigned |-> 0, puts |-> <<>>, infos |-> 0]

UploadInit ==
    /\ shot = NoShot
    /\ upKind \in UpKinds
    /\ file_size \in 0..MaxFileSize
    /\ upPc = "start"
    /\ create_response = [part_size |-> 0, presigned_urls |-> <<>>]
    /\ urlIdx = 1
    /\ filePos = 0
    /\ puts = <<>>
    /\ completed_parts = <<>>
    /\ completeCalls = <<>>
    \* client.py builds the AsyncClient in __init__; www_client.py builds it
    \* lazily in the client property.
    /\ httpState = IF upKind = "kclip" THEN "UNOPENED" ELSE "NONE"
    /\ upErr = "none"
    /\ envFault = FALSE

\* Leaving `async with KScaleStoreClient() as client`: close().
ClientClose(s) == IF s = "NONE" THEN "NONE" ELSE "CLOSED"

\* client.create_krec / client.create_kclip: the first request on the client.
CreateUpload ==
    /\ upPc = "start"
    /\ \/ \E n \in 0..(ExpectedParts + MaxExtraUrls),
             ps \in {DEFAULT_CHUNK_SIZE, AltPartSize},
             asc \in BOOLEAN :
             /\ create_response' =
                    [part_size |-> ps,
                     presigned_urls |-> [i \in 1..n |-> IF asc THEN i ELSE n + 1 - i]]
             /\ httpState' = "OPENED"
             /\ upPc' = "parts"
             /\ UNCHANGED <<upErr, envFault>>
       \/ /\ upPc' = "failed"
          /\ upErr' = "create_failed"
          /\ envFault' = TRUE
          /\ httpState' = "CLOSED"
          /\ UNCHANGED create_response
    /\ UNCHANGED <<upKind, file_size, urlIdx, filePos, puts, completed_parts, completeCalls>>
    /\ UNCHANGED <<shot, extVars, dlVars, authVars, now>>

\* The except/raise of the part loop: the exception leaves the function through
\* the `with open` and the `async with KScaleStoreClient()` blocks.
PutFailedContinue(o) ==
    /\ upPc' = "parts"
    /\ urlIdx' = urlIdx + 1
    /\ UNCHANGED <<upErr, httpState>>

PutFailed(o) ==
    /\ upPc' = "failed"
    /\ upErr' = o
    /\ httpState' = ClientClose(httpState)
    /\ UNCHANGED urlIdx

\* One iteration of the for loop of upload_krec.
UploadPartKRec ==
    /\ upKind = "krec"
    /\ upPc = "parts"
    /\ urlIdx <= Len(create_response.presigned_urls)
    /\ LET part_number == create_response.presigned_urls[urlIdx]
           chunkLen == Min(create_response.part_size, file_size - filePos)
       IN IF chunkLen = 0
          THEN \* if not chunk: break
               /\ upPc' = "complete"
               /\ UNCHANGED <<urlIdx, filePos, puts, completed_parts, upErr, envFault, httpState>>
          ELSE \E o \in PutOutcomes :
               /\ filePos' = filePos + chunkLen
               /\ puts' = Append(puts, [part_number |-> part_number, offset |-> filePos,
                                         len |-> chunkLen, outcome |-> o])
               /\ IF o = "ok"
                  THEN /\ completed_parts' = Append(completed_parts,
                              CompletedPart(part_number, filePos))
                       /\ urlIdx' = urlIdx + 1
                       /\ UNCHANGED <<upPc, upErr, envFault, httpState>>
                  ELSE /\ PutFailed(o)
                       /\ envFault' = TRUE
                       /\ UNCHANGED completed_parts
    /\ UNCHANGED <<upKind, file_size, create_response, completeCalls>>
    /\ UNCHANGED <<shot, extVars, dlVars, authVars, now>>

\* One iteration of the for loop of upload_kclip. `async with client.client`
\* enters the AsyncClient that create_kclip already used: httpx refuses to
\* enter a client that is not UNOPENED (RuntimeError), and closes the client
\* when the block is left.
UploadPartKClip ==
    /\ upKind = "kclip"
    /\ upPc = "parts"
    /\ urlIdx <= Len(create_response.presigned_urls)
    /\ LET part_number == urlIdx   \* enumerate(presigned_urls, 1)
           chunkLen == Min(create_response.part_size, file_size - filePos)
       IN IF chunkLen = 0
          THEN /\ upPc' = "complete"
               /\ UNCHANGED <<urlIdx, filePos, puts, completed_parts, upErr, envFault, httpState>>
          ELSE IF httpState # "UNOPENED"
          THEN \* __aenter__ raises; the chunk was read, no PUT is sent
               /\ filePos' = filePos + chunkLen
               /\ upPc' = "failed"
               /\ upErr' = "RuntimeError"
               /\ httpState' = "CLOSED"
               /\ UNCHANGED <<urlIdx, puts, completed_parts, envFault>>
          ELSE \E o \in PutOutcomes :
               /\ filePos' = filePos + chunkLen
               /\ puts' = Append(puts, [part_number |-> part_number, offset |-> filePos,
                                         len |-> chunkLen, outcome |-> o])
               /\ IF o = "ok"
                  THEN /\ completed_parts' = Append(completed_parts,
                              CompletedPart(part_number, filePos))
                       /\ urlIdx' = urlIdx + 1
                       /\ httpState' = "CLOSED"
                       /\ UNCHANGED <<upPc, upErr, envFault>>
                  ELSE /\ PutFailed(o)
                       /\ envFault' = TRUE
                       /\ UNCHANGED completed_parts
    /\ UNCHANGED <<upKind, file_size, create_response, completeCalls>>
    /\ UNCHANGED <<shot, extVars, dlVars, authVars, now>>

\* The for loop ran out of presigned URLs.
PartsExhausted ==
    /\ upPc = "parts"
    /\ urlIdx > Len(create_response.presigned_urls)
    /\ upPc' = "complete"
    /\ UNCHANGED <<upKind, file_size, create_response, urlIdx, filePos, puts,
                   completed_parts, completeCalls, httpState, upErr, envFault>>
    /\ UNCHANGED <<shot, extVars, dlVars, authVars, now>>

\* client.complete_krec_upload / client.complete_kclip_upload, then return.
CompleteUpload ==
    /\ upPc = "complete"
    /\ IF httpState = "CLOSED"
       THEN \* the request is refused by the closed client before it is sent
            /\ upPc' = "failed"
            /\ upErr' = "RuntimeError"
            /\ UNCHANGED <<completeCalls, envFault>>
       ELSE /\ completeCalls' = Append(completeCalls, completed_parts)
            /\ \/ /\ upPc' = "done"
                  /\ UNCHANGED <<upErr, envFault>>
               \/ /\ upPc' = "failed"
                  /\ upErr' = "complete_failed"
                  /\ envFault' = TRUE
    /\ httpState' = ClientClose(httpState)
    /\ UNCHANGED <<upKind, file_size, create_response, urlIdx, filePos, puts, completed_parts>>
    /\ UNCHANGED <<shot, extVars, dlVars, authVars, now>>

\* Path.suffix.lower()
SuffixLower(suffix) ==
    IF suffix = ".TGZ" THEN ".tgz" ELSE suffix

\* kernels.py line 24
ALLOWED_SUFFIXES == {".img"}

\* Nothing about the file is looked at before the requests.
ValidateShotNothing(kind, path, suffix) == "ok"

\* The checks at the head of upload_robot_class_urdf (existence, then suffix)
\* and of upload_kernel_image (suffix, then existence): the exception raised,
\* or "ok".
ValidateShot(kind, path, suffix) ==
    IF kind = "urdf"
    THEN IF path = "missing" THEN "FileNotFoundError"
         ELSE IF SuffixLower(suffix) # ".tgz" THEN "ValueError"
         ELSE "ok"
    ELSE IF SuffixLower(suffix) \notin ALLOWED_SUFFIXES THEN "ValueError"
         ELSE IF path = "missing" THEN "FileNotFoundError"
         ELSE "ok"

\* RobotClassClient.upload_robot_class_urdf (kind "urdf") and
\* upload_kernel_image (kind "kernel"), called with a path that is missing, a
\* regular file or a directory. After the checks: upload_kernel_image reads
\* the file for its checksum; the presigned URL is requested (the client may
\* fail to get its credentials before it sends anything); the file is read
\* and PUT whole; upload_kernel_image then asks for the artifact's info.
SingleShotUpload(kind) ==
    /\ \E path \in {"missing", "file", "dir"}, suffix \in {".tgz", ".TGZ", ".img", ".urdf"} :
          LET \* open() of a path that is no regular file
              OpenError(q) == IF q = "missing" THEN "FileNotFoundError"
                              ELSE "IsADirectoryError"
              S(result, presigned, ps, infos) ==
                  [kind |-> kind, path |-> path, suffix |-> suffix, result |-> result,
                   presigned |-> presigned, puts |-> ps, infos |-> infos]
              v == ValidateShot(kind, path, suffix)
          IN IF v # "ok"
             THEN shot' = S(v, 0, <<>>, 0)
             ELSE IF kind = "kernel" /\ path # "file"
             THEN \* FileChecksum.calculate
                  shot' = S(OpenError(path), 0, <<>>, 0)
             ELSE \/ shot' = S("credentials_error", 0, <<>>, 0)
                  \/ shot' = S("request_error", 1, <<>>, 0)
                  \/ IF path # "file"
                     THEN \* urdf_file.read_bytes()
                          shot' = S(OpenError(path), 1, <<>>, 0)
                     ELSE \/ shot' = S("put_error", 1, <<"whole">>, 0)
                          \/ /\ kind = "urdf"
                             /\ shot' = S("returned", 1, <<"whole">>, 0)
                          \/ /\ kind = "kernel"
                             /\ \E r \in {"returned", "info_error"} :
                                   shot' = S(r, 1, <<"whole">>, 1)
    /\ UNCHANGED <<upKind, file_size, upPc, create_response, urlIdx, filePos, puts,
                   completed_parts, completeCalls, httpState, upErr, envFault>>
    /\ UNCHANGED <<extVars, dlVars, authVars, now>>

UploadNext ==
    \/ \E kind \in {"urdf", "kernel"} : SingleShotUpload(kind)
    \/ CreateUpload
    \/ UploadPartKRec
    \/ UploadPartKClip
    \/ PartsExhausted
    \/ CompleteUpload

\* ------------------------------------------------------------------------
\* Download and cache: RobotClassClient.download_compressed_urdf
\* (clients/robot_class.py), download_krec (krec.py), download_kernel_image
\* (kernels.py)
\* ------------------------------------------------------------------------
\* WWWSettings.refresh_interval_minutes (60 * 24), in units of 12 hours.
refresh_interval == 2

\* Latest clock value explored.
MaxTime == 3

DlKinds == {"urdf", "krec", "kernel", "artifact"}

\* The contents a server can hold or a transfer can deliver.
Contents == {"v1", "v2"}

NoFile == [exists |-> FALSE, content |-> "none", mtime |-> 0]

File(c, t) == [exists |-> TRUE, content |-> c, mtime |-> t]

NoInfo == [exists |-> FALSE, md5_hash |-> <<>>]

\* No robot/ directory. `files` are the archive contents whose members lie in
\* the directory, `md5_hash` what its .info.json records (<<>>: no .info.json).
NoDir == [exists |-> FALSE, files |-> {}, md5_hash |-> <<>>]

\* The artifact ids with a directory under the cache root.
ArtifactIds == {"a1", "a2", "a3"}

\* No cache root.
NoCache == [root |-> FALSE, dirs |-> {}]

NoRemove == [target |-> "none", pre |-> NoCache, post |-> NoCache, raised |-> FALSE,
             repeat |-> FALSE, prevPost |-> NoCache]

NoExtract == [cache |-> FALSE, result |-> "none", how |-> "none", preExists |-> FALSE,
              preMatch |-> FALSE, preInfoMatch |-> FALSE, archive |-> "none",
              expected_hash |-> <<>>, byteGets |-> 0, removed |-> FALSE, extracted |-> FALSE]

\* hashlib.md5 / hashlib.sha256 of a content, as a hex digest.
MD5(c) == <<"md5", c>>

SHA256(c) == <<"sha256", c>>

\* f'"{hash_value.hexdigest()}"'
QuotedHex(h) == <<"\"">> \o h \o <<"\"">>

\* RobotDownloadURDFResponse.md5_hash: the quoted MD5 of the server's content.
ServerMd5 == QuotedHex(MD5(srvContent))

\* should_refresh_file(path): the modification time is more than the refresh
\* interval in the past.
should_refresh_file(f) == now - f.mtime > refresh_interval

NoCall == [op |-> "none", cache |-> FALSE, result |-> "none", outcome |-> "none",
           metaReq |-> 0, byteGets |-> 0, authReq |-> 0,
           preExists |-> FALSE, preStale |-> FALSE, preInfoMatch |-> FALSE,
           preSidecar |-> FALSE, returned |-> "none", quietBefore |-> FALSE]

Call(op, cache, result, outcome, metaReq, byteGets, authReq, returned) ==
    [op |-> op, cache |-> cache, result |-> result, outcome |-> outcome,
     metaReq |-> metaReq, byteGets |-> byteGets, authReq |-> authReq,
     preExists |-> tgz.exists,
     preStale |-> tgz.exists /\ should_refresh_file(tgz),
     preInfoMatch |-> info.exists /\ info.md5_hash = ServerMd5,
     preSidecar |-> CASE dlKind = "krec" -> krecInfo # "absent"
                      [] dlKind = "kernel" -> kimgInfo # "absent"
                      [] dlKind = "artifact" -> urdfInfo # "absent"
                      [] OTHER -> info.exists,
     returned |-> returned, quietBefore |-> ~changedSince]

DownloadInit ==
    /\ dlKind \in DlKinds
    /\ srvContent \in Contents
    /\ tgz = NoFile
    /\ info = NoInfo
    /\ krecInfo = "absent"
    /\ krecFile = NoFile
    /\ kimgInfo = "absent"
    /\ kimgFile = NoFile
    /\ urdfInfo = "absent"
    /\ unpack = NoDir
    /\ xlast = NoExtract
    /\ cacheFs = NoCache
    /\ rmLast = NoRemove
    /\ tokCoro = "none"
    /\ last = NoCall
    /\ prev = [op |-> "none", result |-> "none"]
    /\ changedSince = FALSE
    /\ tampered = FALSE

\* Every download call ends by recording itself.
Record(rec) ==
    /\ last' = rec
    /\ prev' = [op |-> last.op, result |-> last.result]
    /\ changedSince' = FALSE

\* The fast path of download_compressed_urdf: the condition of line 119.
FastPathNoRefresh(cache) == cache /\ tgz.exists

FastPath(cache) == cache /\ tgz.exists /\ ~should_refresh_file(tgz)

\* How one download_compressed_urdf(class_name, cache=cache) call can go: the
\* files it leaves, what it returns or raises, the requests it sends.
CompressedUrdfOutcomes(cache) ==
    LET Out(t, i, result, outcome, metaReq, byteGets, returned) ==
            [tgz |-> t, info |-> i, result |-> result, outcome |-> outcome,
             metaReq |-> metaReq, byteGets |-> byteGets, returned |-> returned]
        touched == File(IF tgz.exists THEN tgz.content ELSE "empty", now)
    IN IF FastPath(cache)
       THEN {Out(tgz, info, "path", "fast_path", 0, 0, tgz.content)}
       ELSE \* the metadata request fails: _request exits or raises
            {Out(tgz, info, "raise", "meta_error", 1, 0, "none")}
            \cup
            (IF info.exists /\ info.md5_hash = ServerMd5
             THEN \* the sidecar records the hash the server declares
                  {Out(touched, info, "path", "touched", 1, 0, touched.content)}
             ELSE \* the archive is streamed into robot.tgz, opened with "wb"
                  {Out(File("empty", now), info, "raise", "get_error", 1, 1, "none"),
                   Out(File("partial", now), info, "raise", "interrupted", 1, 1, "none")}
                  \cup
                  {IF QuotedHex(MD5(bytes)) # ServerMd5
                   THEN Out(File(bytes, now), info, "raise", "mismatch", 1, 1, "none")
                   ELSE Out(File(bytes, now),
                            [exists |-> TRUE, md5_hash |-> QuotedHex(MD5(bytes))],
                            "path", "downloaded", 1, 1, bytes)
                   : bytes \in Contents})

\* RobotClassClient.download_compressed_urdf(class_name, cache=cache)
DownloadCompressedUrdf(cache) ==
    /\ dlKind = "urdf"
    /\ \E o \in CompressedUrdfOutcomes(cache) :
          /\ tgz' = o.tgz
          /\ info' = o.info
          /\ Record(Call("urdf", cache, o.result, o.outcome, o.metaReq, o.byteGets, 0,
                         o.returned))
    /\ UNCHANGED <<dlKind, cacheFs, rmLast, urdfInfo, unpack, xlast, srvContent, krecInfo, krecFile, kimgInfo,
                   kimgFile, tokCoro, tampered>>
    /\ UNCHANGED <<extVars, upVars, authVars, now>>

\* download_and_extract_urdf without the removal of the unpacked directory.
KeepUnpacked(cache, dir) == dir

\* `if not cache: if unpack_path.exists(): shutil.rmtree(unpack_path)`
RemoveUnpacked(cache, dir) == IF ~cache /\ dir.exists THEN NoDir ELSE dir

\* tarfile.open(cache_path, "r:gz") and tar.extractall(path=unpack_path) on a
\* robot.tgz with the given content: whether it ends without an exception, and
\* which members it wrote into the directory. An empty file is no gzip stream;
\* a truncated one ends in the middle of a member; altered bytes may or may
\* not still be an archive.
ExtractOutcomes(content) ==
    CASE content \in Contents -> {[ok |-> TRUE, wrote |-> {content}]}
      [] content = "partial" -> {[ok |-> FALSE, wrote |-> {}], [ok |-> FALSE, wrote |-> {"partial"}]}
      [] content = "altered" -> {[ok |-> FALSE, wrote |-> {}], [ok |-> TRUE, wrote |-> {"altered"}]}
      [] OTHER -> {[ok |-> FALSE, wrote |-> {}]}

\* RobotClassClient.download_and_extract_urdf(class_name, cache=cache)
DownloadAndExtractUrdf(cache) ==
    /\ dlKind = "urdf"
    /\ \E o \in CompressedUrdfOutcomes(cache) :
          LET X(result, how, removed, extracted) ==
                  [cache |-> cache, result |-> result, how |-> how,
                   preExists |-> unpack.exists,
                   preMatch |-> o.info.exists /\ unpack.md5_hash = o.info.md5_hash,
                   preInfoMatch |-> info.exists /\ info.md5_hash = ServerMd5,
                   archive |-> o.tgz.content, expected_hash |-> o.info.md5_hash,
                   byteGets |-> o.byteGets, removed |-> removed, extracted |-> extracted]
              cleared == RemoveUnpacked(cache, unpack)
              \* unpack_path.mkdir(parents=True, exist_ok=True)
              made == [cleared EXCEPT !.exists = TRUE]
          IN /\ tgz' = o.tgz
             /\ info' = o.info
             /\ IF o.result = "raise"
                THEN \* download_compressed_urdf raised
                     /\ xlast' = X("raise", "compressed_raise", FALSE, FALSE)
                     /\ UNCHANGED unpack
                ELSE IF ~o.info.exists
                THEN \* open(cache_path_info, "r"): FileNotFoundError
                     /\ xlast' = X("raise", "no_sidecar", FALSE, FALSE)
                     /\ UNCHANGED unpack
                ELSE IF made.md5_hash = o.info.md5_hash
                THEN \* already unpacked: unpack_path.touch(), return
                     /\ unpack' = made
                     /\ xlast' = X("dir", "reused", cleared # unpack, FALSE)
                ELSE \E e \in ExtractOutcomes(o.tgz.content) :
                     IF e.ok
                     THEN /\ unpack' = [exists |-> TRUE, files |-> made.files \cup e.wrote,
                                        md5_hash |-> o.info.md5_hash]
                          /\ xlast' = X("dir", "extracted", cleared # unpack, TRUE)
                     ELSE /\ unpack' = [made EXCEPT !.files = @ \cup e.wrote]
                          /\ xlast' = X("raise", "extract_error", cleared # unpack, TRUE)
         /\ UNCHANGED <<dlKind, cacheFs, rmLast, urdfInfo, srvContent, krecInfo, krecFile, kimgInfo, kimgFile,
                   tokCoro, last, prev, changedSince, tampered>>
    /\ UNCHANGED <<extVars, upVars, authVars, now>>

\* The bytes of robot.tgz are altered on disk by something else.
Tamper ==
    /\ dlKind = "urdf"
    /\ tgz.exists
    /\ tgz.content # "altered"
    /\ \E keepMtime \in BOOLEAN :
          tgz' = File("altered", IF keepMtime THEN tgz.mtime ELSE now)
    /\ tampered' = TRUE
    /\ changedSince' = TRUE
    /\ UNCHANGED <<dlKind, cacheFs, rmLast, urdfInfo, unpack, xlast, srvContent, info, krecInfo, krecFile, kimgInfo, kimgFile,
                   tokCoro, last, prev>>
    /\ UNCHANGED <<extVars, upVars, authVars, now>>

\* The robot class's URDF, or what the server reports for the artifact, is
\* replaced on the server.
ServerUpdate ==
    /\ dlKind \in {"urdf", "artifact"}
    /\ \E c \in Contents \ {srvContent} : srvContent' = c
    /\ changedSince' = TRUE
    /\ UNCHANGED <<dlKind, cacheFs, rmLast, urdfInfo, unpack, xlast, tgz, info, krecInfo, krecFile, kimgInfo, kimgFile,
                   tokCoro, last, prev, tampered>>
    /\ UNCHANGED <<extVars, upVars, authVars, now>>

\* Time passes.
Tick ==
    /\ now < MaxTime
    /\ now' = now + 1
    /\ UNCHANGED <<extVars, upVars, dlVars, authVars>>

\* The content of the K-Rec and of the kernel image on the server (immutable per id).
ArtifactContent == "v1"

\* What GET /krecs/download/{id} can answer.
KRecResponses == {"ok_checksum", "ok_nochecksum", "missing_fields", "not_dict", "empty", "error"}

\* The mismatching download left where it was written.
KeepMismatch(bytes) == File(bytes, now)

\* full_path.unlink() of the mismatching download (krec.py line 203).
UnlinkMismatch(bytes) == NoFile

\* download_krec(krec_id), with fetch_krec_info
DownloadKRec ==
    /\ dlKind = "krec"
    /\ LET cached == krecInfo # "absent"
       IN \E resp \in (IF cached THEN {krecInfo} ELSE KRecResponses) :
          LET metaReq == IF cached THEN 0 ELSE 1
              expected == resp = "ok_checksum"
          IN IF resp \in {"error", "not_dict", "empty"}
             THEN \* get_krec_info raises, nothing is written
                  /\ Record(Call("krec", TRUE, "raise", "info_error", metaReq, 0, 0, "none"))
                  /\ UNCHANGED <<krecInfo, krecFile>>
             ELSE /\ krecInfo' = resp   \* response_path.write_text
                  /\ IF resp = "missing_fields"
                     THEN /\ Record(Call("krec", TRUE, "raise", "invalid_format", metaReq, 0, 0, "none"))
                          /\ UNCHANGED krecFile
                     ELSE IF krecFile.exists
                             /\ (~expected \/ SHA256(krecFile.content) = SHA256(ArtifactContent))
                     THEN /\ Record(Call("krec", TRUE, "path", "cached", metaReq, 0, 0, krecFile.content))
                          /\ UNCHANGED krecFile
                     ELSE \/ /\ Record(Call("krec", TRUE, "raise", "get_error", metaReq, 1, 0, "none"))
                             /\ UNCHANGED krecFile
                          \/ /\ krecFile' = File("partial", now)
                             /\ Record(Call("krec", TRUE, "raise", "interrupted", metaReq, 1, 0, "none"))
                          \/ \E bytes \in Contents :
                                IF expected /\ SHA256(bytes) # SHA256(ArtifactContent)
                                THEN /\ krecFile' = UnlinkMismatch(bytes)
                                     /\ Record(Call("krec", TRUE, "raise", "mismatch", metaReq, 1, 0, "none"))
                                ELSE /\ krecFile' = File(bytes, now)
                                     /\ Record(Call("krec", TRUE, "path", "downloaded", metaReq, 1, 0, bytes))
    /\ UNCHANGED <<dlKind, cacheFs, rmLast, urdfInfo, unpack, xlast, srvContent, tgz, info, kimgInfo, kimgFile, tokCoro, tampered>>
    /\ UNCHANGED <<extVars, upVars, authVars, now>>

\* `await get_bearer_token()` of kernels.py line 51. functools.lru_cache keeps
\* the coroutine object of the first call; a coroutine can be awaited once.
\* The result is "token" or the exception raised.
AwaitBearerToken == IF tokCoro = "none" THEN "token" ELSE "RuntimeError"

\* download_kernel_image(artifact_id), with fetch_kernel_image_info
DownloadKernelImage ==
    /\ dlKind = "kernel"
    /\ LET metaReq == IF kimgInfo = "absent" THEN 1 ELSE 0
       IN \/ \* the info request fails
             /\ kimgInfo = "absent"
             /\ Record(Call("kernel", TRUE, "raise", "info_error", 1, 0, 0, "none"))
             /\ UNCHANGED <<kimgInfo, kimgFile, tokCoro>>
          \/ /\ kimgInfo' = "present"
             /\ tokCoro' = "awaited"
             /\ IF AwaitBearerToken # "token"
                THEN /\ Record(Call("kernel", TRUE, "raise", AwaitBearerToken, metaReq, 0, 0, "none"))
                     /\ UNCHANGED kimgFile
                ELSE \E authReq \in 0..1 :
                     \* get_bearer_token validates a cached token against the
                     \* JWKS it fetches (1), or runs the browser flow (0), or fails
                     \/ /\ Record(Call("kernel", TRUE, "raise", "token_error", metaReq, 0, authReq, "none"))
                        /\ UNCHANGED kimgFile
                     \/ /\ kimgFile.exists
                        /\ Record(Call("kernel", TRUE, "path", "cached", metaReq, 0, authReq, kimgFile.content))
                        /\ UNCHANGED kimgFile
                     \/ /\ ~kimgFile.exists
                        /\ \/ /\ Record(Call("kernel", TRUE, "raise", "get_error", metaReq, 1, authReq, "none"))
                              /\ UNCHANGED kimgFile
                           \/ /\ kimgFile' = File("partial", now)
                              /\ Record(Call("kernel", TRUE, "raise", "interrupted", metaReq, 1, authReq, "none"))
                           \/ \E bytes \in Contents :
                                 /\ kimgFile' = File(bytes, now)
                                 /\ Record(Call("kernel", TRUE, "path", "downloaded", metaReq, 1, authReq, bytes))
    /\ UNCHANGED <<dlKind, cacheFs, rmLast, urdfInfo, unpack, xlast, srvContent, tgz, info, krecInfo, krecFile, tampered>>
    /\ UNCHANGED <<extVars, upVars, authVars, now>>

\* A fetch_*_info that never finds its sidecar.
SidecarNeverHit(sidecar) == FALSE

\* response_path.exists() of the fetch_*_info functions.
SidecarHit(sidecar) == sidecar # "absent"

\* fetch_kernel_image_info(artifact_id, cache_dir), as show_kernel_image_info
\* calls it.
FetchKernelImageInfo ==
    /\ dlKind = "kernel"
    /\ IF SidecarHit(kimgInfo)
       THEN /\ Record(Call("kernel_info", TRUE, "info", "sidecar", 0, 0, 0, kimgInfo))
            /\ UNCHANGED kimgInfo
       ELSE \/ \* get_artifact_info raises
               /\ Record(Call("kernel_info", TRUE, "raise", "info_error", 1, 0, 0, "none"))
               /\ UNCHANGED kimgInfo
            \/ /\ kimgInfo' = "present"
               /\ Record(Call("kernel_info", TRUE, "info", "fetched", 1, 0, 0, "present"))
    /\ UNCHANGED <<dlKind, cacheFs, rmLast, urdfInfo, unpack, xlast, srvContent, tgz, info, krecInfo, krecFile, kimgFile,
                   tokCoro, tampered>>
    /\ UNCHANGED <<extVars, upVars, authVars, now>>

\* fetch_urdf_info(artifact_id, cache_dir), as show_urdf_info calls it. The
\* response describes what the server holds at the time of the request.
FetchUrdfInfo ==
    /\ dlKind = "artifact"
    /\ IF SidecarHit(urdfInfo)
       THEN /\ Record(Call("urdf_info", TRUE, "info", "sidecar", 0, 0, 0, urdfInfo))
            /\ UNCHANGED urdfInfo
       ELSE \/ /\ Record(Call("urdf_info", TRUE, "raise", "info_error", 1, 0, 0, "none"))
               /\ UNCHANGED urdfInfo
            \/ /\ urdfInfo' = srvContent
               /\ Record(Call("urdf_info", TRUE, "info", "fetched", 1, 0, 0, srvContent))
    /\ UNCHANGED <<dlKind, cacheFs, rmLast, unpack, xlast, srvContent, tgz, info, krecInfo, krecFile, kimgInfo,
                   kimgFile, tokCoro, tampered>>
    /\ UNCHANGED <<extVars, upVars, authVars, now>>

\* fetch_krec_info(krec_id, cache_dir): an empty response and a failed
\* get_krec_info raise before anything is written.
FetchKRecInfo ==
    /\ dlKind = "krec"
    /\ IF SidecarHit(krecInfo)
       THEN /\ Record(Call("krec_info", TRUE, "info", "sidecar", 0, 0, 0, krecInfo))
            /\ UNCHANGED krecInfo
       ELSE \E resp \in KRecResponses :
               IF resp \in {"error", "not_dict", "empty"}
               THEN /\ Record(Call("krec_info", TRUE, "raise", "info_error", 1, 0, 0, "none"))
                    /\ UNCHANGED krecInfo
               ELSE /\ krecInfo' = resp
                    /\ Record(Call("krec_info", TRUE, "info", "fetched", 1, 0, 0, resp))
    /\ UNCHANGED <<dlKind, cacheFs, rmLast, urdfInfo, unpack, xlast, srvContent, tgz, info, krecFile, kimgInfo, kimgFile,
                   tokCoro, tampered>>
    /\ UNCHANGED <<extVars, upVars, authVars, now>>

\* The response.json an info call reads and writes.
Sidecar(op) ==
    CASE op = "kernel_info" -> kimgInfo
      [] op = "urdf_info" -> urdfInfo
      [] OTHER -> krecInfo

\* The command-line process ends and a new one starts: its caches are empty.
ProcessRestart ==
    /\ dlKind = "kernel"
    /\ tokCoro = "awaited"
    /\ tokCoro' = "none"
    /\ UNCHANGED <<dlKind, cacheFs, rmLast, urdfInfo, unpack, xlast, srvContent, tgz, info, krecInfo, krecFile, kimgInfo, kimgFile,
                   last, prev, changedSince, tampered>>
    /\ UNCHANGED <<extVars, upVars, authVars, now>>

DownloadNext ==
    \/ \E cache \in BOOLEAN : DownloadCompressedUrdf(cache)
    \/ Tamper
    \/ ServerUpdate
    \/ Tick
    \/ DownloadKRec
    \/ DownloadKernelImage
    \/ ProcessRestart
    \/ FetchKernelImageInfo
    \/ FetchUrdfInfo
    \/ FetchKRecInfo

\* get_artifact_dir(artifact_id): the directory is made, parents included.
get_artifact_dir(fs, artifact_id) == [root |-> TRUE, dirs |-> fs.dirs \cup {artifact_id}]

\* artifact_id.lower()
Lower(artifact_id) == IF artifact_id = "ALL" THEN "all" ELSE artifact_id

\* A removal that takes every artifact directory with it.
RmTreeSiblings(fs, artifact_id) == [fs EXCEPT !.dirs = {}]

\* shutil.rmtree(artifact_dir)
RmTree(fs, artifact_id) == [fs EXCEPT !.dirs = @ \ {artifact_id}]

\* remove_local_kernel_image(target) / remove_local_urdf(target): the two
\* functions have the same body.
RemoveLocal(target) ==
    /\ dlKind = "cache"
    /\ cacheFs' =
          IF Lower(target) = "all"
          THEN IF cacheFs.root
               THEN NoCache   \* shutil.rmtree(cache_dir)
               ELSE cacheFs   \* logger.error("No local caches found")
          ELSE \* get_artifact_dir has made the directory: exists() is true
               RmTree(get_artifact_dir(cacheFs, target), target)
    /\ rmLast' = [target |-> target, pre |-> cacheFs, post |-> cacheFs', raised |-> FALSE,
                  repeat |-> Lower(rmLast.target) = Lower(target) /\ rmLast.post = cacheFs,
                  prevPost |-> rmLast.post]
    /\ UNCHANGED <<dlKind, srvContent, tgz, info, krecInfo, krecFile, kimgInfo, kimgFile,
                   urdfInfo, unpack, xlast, tokCoro, last, prev, changedSince, tampered>>
    /\ UNCHANGED <<extVars, upVars, authVars, now>>

\* A fetch_*_info or download call for the artifact: get_artifact_dir(id)
\* makes the artifact's directory, in which the call writes its files.
CacheArtifact(artifact_id) ==
    /\ dlKind = "cache"
    /\ cacheFs' = get_artifact_dir(cacheFs, artifact_id)
    /\ cacheFs' # cacheFs
    /\ UNCHANGED <<dlKind, rmLast, srvContent, tgz, info, krecInfo, krecFile, kimgInfo,
                   kimgFile, urdfInfo, unpack, xlast, tokCoro, last, prev, changedSince,
                   tampered>>
    /\ UNCHANGED <<extVars, upVars, authVars, now>>

\* The cache directory as a command finds it: missing, empty, or with the
\* directories of some artifacts.
CacheInit ==
    /\ dlKind = "cache"
    /\ srvContent = "v1"
    /\ tgz = NoFile
    /\ info = NoInfo
    /\ krecInfo = "absent"
    /\ krecFile = NoFile
    /\ kimgInfo = "absent"
    /\ kimgFile = NoFile
    /\ urdfInfo = "absent"
    /\ unpack = NoDir
    /\ xlast = NoExtract
    /\ \E root \in BOOLEAN, dirs \in SUBSET ArtifactIds :
          /\ (~root => dirs = {})
          /\ cacheFs = [root |-> root, dirs |-> dirs]
    /\ rmLast = NoRemove
    /\ tokCoro = "none"
    /\ last = NoCall
    /\ prev = [op |-> "none", result |-> "none"]
    /\ changedSince = FALSE
    /\ tampered = FALSE

CacheNext ==
    \/ \E target \in ArtifactIds \cup {"all", "ALL"} : RemoveLocal(target)
    \/ \E artifact_id \in ArtifactIds : CacheArtifact(artifact_id)

\* A process that gets its robot through download_and_extract_urdf.
ExtractInit ==
    /\ DownloadInit
    /\ dlKind = "urdf"

ExtractNext ==
    \/ \E cache \in BOOLEAN : DownloadAndExtractUrdf(cache)
    \/ Tamper
    \/ ServerUpdate
    \/ Tick

\* ------------------------------------------------------------------------
\* Bearer token acquisition and the OAuth implicit flow:
\* BaseClient (clients/base.py) and the module functions of token.py
\* ------------------------------------------------------------------------

\* Concurrent callers in the process.
NumCallers == 2

\* How many OAuth flows one process may start.
MaxFlows == 2

\* Lifetime of a token the identity provider issues, in clock units.
TokenLifetime == 2

\* How many requests of each discovery document one process may send.
MaxDiscoveryRequests == 2

\* The wait loop gives up once more than this many seconds have elapsed.
OAUTH_TIMEOUT == 30

\* How far the clock of the wait loop may advance between two polls, in seconds.
WaitSteps == {15, 16}

Callers == 1..NumCallers

Impls == {"base", "token"}

NoTok == [id |-> -1, exp |-> -1, sig |-> "none"]

\* A token the identity provider signed.
Token(id, exp) == [id |-> id, exp |-> exp, sig |-> "valid"]

\* A token whose signature does not verify against the provider's keys.
Forged(id, exp) == [id |-> id, exp |-> exp, sig |-> "invalid"]

\* Text in the token file that is not a JWT.
Malformed == [id |-> 0, exp |-> -1, sig |-> "malformed"]

NoClient == [kind |-> "none", tok |-> NoTok]

NoReq == [kind |-> "none", tok |-> NoTok, at |-> 0]

\* The comparison turned around.
ExpiredWhenFuture(token) == token.exp > now

\* jwt_decode raises ExpiredSignatureError when exp <= now, which is answered
\* with True; otherwise the answer is claims["exp"] < time.time().
is_token_expired(token) == IF token.exp <= now THEN TRUE ELSE token.exp < now

\* What a call of _is_token_expired(token) answers. get_signing_key_from_jwt
\* fetches the JWKS (PyJWKClientError when that fails); jwt_decode verifies
\* the signature before it validates the claims, and only
\* ExpiredSignatureError is caught.
ExpiredAnswerLenient(token, keyFetched) ==
    IF token.sig # "valid" THEN "True"
    ELSE IF ~keyFetched THEN "PyJWKClientError"
    ELSE IF is_token_expired(token) THEN "True"
    ELSE "False"

ExpiredAnswer(token, keyFetched) ==
    IF token.sig = "malformed" THEN "DecodeError"
    ELSE IF ~keyFetched THEN "PyJWKClientError"
    ELSE IF token.sig # "valid" THEN "InvalidSignatureError"
    ELSE IF is_token_expired(token) THEN "True"
    ELSE "False"

NoCheck == [tok |-> NoTok, at |-> 0, answer |-> "none"]

NoPre == [started |-> FALSE, file |-> NoTok, fresh |-> FALSE]

\* Nothing of the OAuth flow was done.
NoSteps == [discovery |-> 0, bind |-> 0, open |-> 0]

\* Status classes of a response: 2xx, 3xx (httpx follows no redirect by
\* default), 4xx or 5xx.
Statuses == {"2xx", "3xx", "error"}

\* The body of a response parses as JSON or does not (an HTML page of a
\* gateway, an empty body).
Bodies == {"json", "not_json"}

NoResp == [status |-> "none", body |-> "none", result |-> "none"]

\* httpx.Response.is_error: a 4xx or 5xx status.
is_error(status) == status = "error"

\* _request from `if response.is_error` on: how the call ends. response.json()
\* raises JSONDecodeError on a body that is not JSON, in the error branch
\* before anything is logged.
HandleResponse(status, body) ==
    IF is_error(status)
    THEN IF body = "not_json" THEN "JSONDecodeError"
         ELSE IF verbose THEN "HTTPStatusError"
         ELSE "exit1"
    ELSE IF body = "not_json" THEN "JSONDecodeError"
         ELSE "returned"

\* The permission bits of a file that open(path, "w") creates under the
\* usual umask of 022.
UmaskMode == "0644"

\* The bits bearer_token.txt has when the process starts: what the get_bearer_token
\* of an earlier process left.
ModeFound ==
    [mode |-> IF tokenFile = NoTok THEN "none"
              ELSE IF impl = "base" THEN "0600" ELSE UmaskMode,
     written |-> "none"]

\* cache_path.write_text(token) creates the file with the umask's bits or
\* keeps the bits of the file it truncates.
WriteText(m) == IF m = "none" THEN UmaskMode ELSE m

\* cache_path.chmod(0o600), which only base.py has.
Chmod(m) == IF impl = "base" THEN "0600" ELSE m

\* The bits of bearer_token.txt after get_bearer_token returned: the token of
\* a flow is written, a cached token is returned as it was read.
Persisted(how) ==
    IF how = "token"
    THEN [mode |-> Chmod(WriteText(tokenMode.mode)), written |-> WriteText(tokenMode.mode)]
    ELSE tokenMode

\* The discovery documents a starting process finds on disk; nothing is in
\* memory and no request was sent.
Found(infoDisk, metaDisk) ==
    [infoDisk |-> infoDisk, metaDisk |-> metaDisk, infoMem |-> FALSE, metaMem |-> FALSE,
     infoReqs |-> 0, metaReqs |-> 0, failed |-> FALSE,
     infoFound |-> infoDisk, metaFound |-> metaDisk]

NoDisc == Found(FALSE, FALSE)

\* Python's None, where a state or a nonce is expected.
None == -1

\* No flow has built an authorization URL.
NoOAuth == [state |-> None, nonce |-> None, stateFromFile |-> FALSE, nonceFromFile |-> FALSE]

\* No oauth_state.json.
NoState == [state |-> None, nonce |-> None]

\* The state and nonce an earlier process sent and saved.
EarlierState == [state |-> 0, nonce |-> 0]

\* secrets.token_urlsafe(32): a value no other call returns. Flow n of the
\* process draws n; the values of earlier processes are 0.
token_urlsafe == flowRuns

\* State and nonce drawn anew for every attempt.
FreshStateAndNonce ==
    [state |-> token_urlsafe, nonce |-> token_urlsafe,
     stateFromFile |-> FALSE, nonceFromFile |-> FALSE]

\* The state and nonce of the authorization URL: base.py takes them from
\* oauth_state.json when the file holds them and generates what is missing;
\* token.py generates both.
StateAndNonce ==
    IF impl = "base"
    THEN [state |-> IF stateFile.state # None THEN stateFile.state ELSE token_urlsafe,
          nonce |-> IF stateFile.nonce # None THEN stateFile.nonce ELSE token_urlsafe,
          stateFromFile |-> stateFile.state # None,
          nonceFromFile |-> stateFile.nonce # None]
    ELSE FreshStateAndNonce

\* get_client without the branch on KSCALE_API_KEY.
HasApiKeyIgnored == FALSE

\* "KSCALE_API_KEY" in os.environ (get_client).
HasApiKey == apiKey

\* _get_bearer_token without the headless check.
HeadlessUnchecked == FALSE

\* The headless check of BaseClient._get_bearer_token: webbrowser.get() raises
\* or names the null browser. token.py has no such check.
Headless == impl = "base" /\ browser = "null"

AuthInit ==
    /\ now = 0
    /\ impl \in Impls
    /\ use_cache \in BOOLEAN
    /\ apiKey \in BOOLEAN
    /\ browser \in {"ok", "null"}
    /\ port \in {"free", "other"}
    /\ tokenFile \in {NoTok, Token(0, 0), Token(0, 1), Forged(0, 0), Forged(0, 1)}
    /\ tokenMode = ModeFound
    /\ acq = "empty"
    /\ acqVal = NoTok
    /\ tpc = "idle"
    /\ runner = "none"
    /\ access_token = NoTok
    /\ elapsed = 0
    /\ flowRuns = 0
    /\ flowExit = "none"
    /\ authFault = FALSE
    /\ callerPc = [c \in Callers |-> "idle"]
    /\ callerTok = [c \in Callers |-> NoTok]
    /\ client = NoClient
    /\ clientsCreated = 0
    /\ lastReq = NoReq
    /\ verbose = FALSE
    /\ lastResp = NoResp
    /\ steps = NoSteps
    /\ capturedAt = -1
    /\ acqPre = NoPre
    /\ expCheck = NoCheck
    /\ oauth = NoOAuth
    /\ stateFile = NoState
    /\ cbState = None
    /\ disc = NoDisc

\* A call of the cached get_bearer_token while an earlier call is cached.
\* async_lru.alru_cache (base.py) hands every caller the same in-flight task;
\* functools.lru_cache (token.py) hands out the coroutine object of the first
\* call, and awaiting a coroutine a second time raises RuntimeError.
JoinCached(c) ==
    callerPc' = [callerPc EXCEPT ![c] = IF impl = "base" THEN "awaiting" ELSE "raised"]

\* A caller needs credentials: BaseClient.get_client(auth=True) up to its
\* first await, or `await get_bearer_token()` of token.py.
CallGetToken(c) ==
    /\ callerPc[c] \in {"idle", "raised", "req_raised"}
    /\ IF impl = "base" /\ client # NoClient
       THEN \* the AsyncClient built earlier is reused, headers included
            /\ callerPc' = [callerPc EXCEPT ![c] = "send"]
            /\ UNCHANGED <<client, clientsCreated, acq, tpc>>
       ELSE IF impl = "base" /\ HasApiKey
       THEN /\ client' = [kind |-> "apikey", tok |-> NoTok]
            /\ clientsCreated' = clientsCreated + 1
            /\ callerPc' = [callerPc EXCEPT ![c] = "send"]
            /\ UNCHANGED <<acq, tpc>>
       ELSE IF acq = "empty"
       THEN \* cache miss: the coroutine is created and starts to run
            /\ acq' = "pending"
            /\ tpc' = "start"
            /\ callerPc' = [callerPc EXCEPT ![c] = "awaiting"]
            /\ UNCHANGED <<client, clientsCreated>>
       ELSE /\ JoinCached(c)
            /\ UNCHANGED <<client, clientsCreated, acq, tpc>>
    /\ UNCHANGED <<impl, use_cache, apiKey, verbose, browser, port, tokenFile, tokenMode, acqVal, runner,
                   access_token, elapsed, flowRuns, flowExit, authFault, callerTok, lastReq>>
    /\ UNCHANGED <<lastResp, steps, capturedAt, acqPre, expCheck>>
    /\ UNCHANGED <<oauth, stateFile, cbState>>
    /\ UNCHANGED disc
    /\ UNCHANGED <<extVars, upVars, dlVars, now>>

\* The awaited get_bearer_token returned: get_client builds the AsyncClient
\* with the Authorization header and stores it in self._client.
ResumeWithToken(c) ==
    /\ callerPc[c] = "awaiting"
    /\ acq = "done"
    /\ callerTok' = [callerTok EXCEPT ![c] = acqVal]
    /\ callerPc' = [callerPc EXCEPT ![c] = "send"]
    /\ IF impl = "base"
       THEN /\ client' = [kind |-> "bearer", tok |-> acqVal]
            /\ clientsCreated' = clientsCreated + 1
       ELSE UNCHANGED <<client, clientsCreated>>
    /\ UNCHANGED <<impl, use_cache, apiKey, verbose, browser, port, tokenFile, tokenMode, acq, acqVal, tpc, runner,
                   access_token, elapsed, flowRuns, flowExit, authFault, lastReq>>
    /\ UNCHANGED <<lastResp, steps, capturedAt, acqPre, expCheck>>
    /\ UNCHANGED <<oauth, stateFile, cbState>>
    /\ UNCHANGED disc
    /\ UNCHANGED <<extVars, upVars, dlVars, now>>

\* Where _request leaves its caller: with the parsed body, with an exception,
\* or nowhere (sys.exit(1) ends the process).
AfterRequest(result) ==
    IF result = "returned" THEN "idle"
    ELSE IF result = "exit1" THEN "exited"
    ELSE "req_raised"

\* client.request(...) of _request and the handling of its response, or the
\* GET of download_kernel_image with the Authorization header built from the
\* token. The server answers with one of `statuses` and one of `bodies`.
RequestGot(c, statuses, bodies) ==
    /\ callerPc[c] = "send"
    /\ IF impl = "base"
       THEN \E status \in statuses, body \in bodies :
               /\ lastReq' = [kind |-> client.kind, tok |-> client.tok, at |-> now]
               /\ lastResp' = [status |-> status, body |-> body,
                               result |-> HandleResponse(status, body)]
               /\ callerPc' = [callerPc EXCEPT ![c] = AfterRequest(lastResp'.result)]
       ELSE /\ lastReq' = [kind |-> "bearer", tok |-> callerTok[c], at |-> now]
            /\ callerPc' = [callerPc EXCEPT ![c] = "idle"]
            /\ UNCHANGED lastResp
    /\ UNCHANGED <<impl, use_cache, apiKey, verbose, browser, port, tokenFile, tokenMode, acq, acqVal, tpc, runner,
                   access_token, elapsed, flowRuns, flowExit, authFault, callerTok,
                   client, clientsCreated>>
    /\ UNCHANGED <<steps, capturedAt, acqPre, expCheck>>
    /\ UNCHANGED <<oauth, stateFile, cbState>>
    /\ UNCHANGED disc
    /\ UNCHANGED <<extVars, upVars, dlVars, now>>

\* A request the server answers with 200 and a JSON body.
SendRequest(c) == RequestGot(c, {"2xx"}, {"json"})

\* A request the server answers in any way.
Request(c) == RequestGot(c, Statuses, Bodies)

\* _get_oicd_info with no memory of earlier calls.
GetOicdInfoNoMemo(d, ok) ==
    IF use_cache /\ d.infoDisk
    THEN d
    ELSE [d EXCEPT !.infoReqs = @ + 1,
                   !.infoMem = ok,
                   !.infoDisk = ok /\ use_cache,
                   !.failed = @ \/ ~ok]

\* BaseClient._get_oicd_info: the result alru_cache holds, else the document
\* on disk (use_cache), else GET /auth/oicd, which answers (ok) or fails. A
\* failed call leaves nothing in the cache.
GetOicdInfo(d, ok) ==
    IF d.infoMem
    THEN d
    ELSE IF use_cache /\ d.infoDisk
    THEN [d EXCEPT !.infoMem = TRUE]
    ELSE [d EXCEPT !.infoReqs = @ + 1,
                   !.infoMem = ok,
                   !.infoDisk = @ \/ (ok /\ use_cache),
                   !.failed = @ \/ ~ok]

\* BaseClient._get_oicd_metadata: the result alru_cache holds, else the
\* document on disk (use_cache), else _get_oicd_info and the GET of the
\* provider's openid-configuration.
GetOicdMetadata(d, okInfo, okMeta) ==
    IF d.metaMem
    THEN d
    ELSE IF use_cache /\ d.metaDisk
    THEN [d EXCEPT !.metaMem = TRUE]
    ELSE LET d1 == GetOicdInfo(d, okInfo)
         IN IF ~d1.infoMem
            THEN d1
            ELSE [d1 EXCEPT !.metaReqs = @ + 1,
                            !.metaMem = okMeta,
                            !.metaDisk = @ \/ (okMeta /\ use_cache),
                            !.failed = @ \/ ~okMeta]

\* The discovery of _get_bearer_token: _get_oicd_info, then
\* _get_oicd_metadata (base.py 226-227); get_oicd_metadata alone in token.py,
\* which always caches on disk.
Discover(d, okInfo, okMeta) ==
    IF impl = "base"
    THEN LET d1 == GetOicdInfo(d, okInfo)
         IN IF d1.infoMem THEN GetOicdMetadata(d1, okInfo, okMeta) ELSE d1
    ELSE IF d.metaMem
    THEN d
    ELSE IF d.metaDisk
    THEN [d EXCEPT !.metaMem = TRUE]
    ELSE [d EXCEPT !.metaReqs = @ + 1, !.metaMem = okMeta, !.metaDisk = okMeta,
                   !.failed = @ \/ ~okMeta]

\* The requests the documents have cost stay within the bound.
WithinRequests(d) ==
    d.infoReqs <= MaxDiscoveryRequests /\ d.metaReqs <= MaxDiscoveryRequests

\* _get_bearer_token has what it needs to build the authorization URL.
Discovered(d) == d.metaMem /\ (impl = "base" => d.infoMem)

\* The running get_bearer_token raises: the exception reaches the callers
\* awaiting it. alru_cache drops the entry of a failed task; lru_cache keeps
\* the finished coroutine.
AcqFail(kind) ==
    /\ tpc' = "idle"
    /\ flowExit' = kind
    /\ authFault' = TRUE
    /\ acq' = IF impl = "base" THEN "empty" ELSE "done"
    /\ acqVal' = NoTok
    /\ callerPc' = [c \in Callers |-> IF callerPc[c] = "awaiting" THEN "raised" ELSE callerPc[c]]

\* get_bearer_token returning a token it writes to bearer_token.txt whatever
\* use_cache says.
AcqReturnAlwaysPersist(token, how) ==
    /\ tpc' = "idle"
    /\ flowExit' = how
    /\ acq' = "done"
    /\ acqVal' = token
    /\ tokenFile' = token
    /\ tokenMode' = Persisted(how)
    /\ UNCHANGED <<authFault, callerPc>>

\* get_bearer_token returns token: it is written to bearer_token.txt when
\* use_cache is set, and becomes the cached result.
AcqReturn(token, how) ==
    /\ tpc' = "idle"
    /\ flowExit' = how
    /\ acq' = "done"
    /\ acqVal' = token
    /\ tokenFile' = IF use_cache THEN token ELSE tokenFile
    /\ tokenMode' = IF use_cache THEN Persisted(how) ELSE tokenMode
    /\ UNCHANGED <<authFault, callerPc>>

\* `token = await self._get_bearer_token()`: the flow is entered.
StartFlow ==
    /\ flowRuns < MaxFlows
    /\ tpc' = "flow"
    /\ flowRuns' = flowRuns + 1
    /\ flowExit' = "none"
    /\ UNCHANGED <<acq, acqVal, tokenFile, tokenMode, authFault, callerPc>>

\* get_bearer_token up to the start of the flow: the cached token file is
\* read and the token validated.
GetBearerTokenStartWith(anyAnswer) ==
    /\ tpc = "start"
    /\ acqPre' = [started |-> TRUE, file |-> tokenFile,
                  fresh |-> tokenFile.sig = "valid" /\ tokenFile.exp > now]
    /\ steps' = NoSteps
    /\ IF use_cache /\ tokenFile # NoTok
       THEN \E okInfo, keyFetched \in BOOLEAN :
               \* _get_jwk_client of base.py asks _get_oicd_info for the authority
               \* (okInfo: the request is answered); without it there is no key.
               \* keyFetched: the JWKS request is answered with the key of the token.
               LET d1 == IF impl = "base" THEN GetOicdInfo(disc, okInfo) ELSE disc
                   answer == ExpiredAnswer(tokenFile,
                                           keyFetched /\ (impl = "base" => d1.infoMem))
               IN /\ anyAnswer \/ okInfo = keyFetched
                  /\ WithinRequests(d1)
                  /\ disc' = d1
                  /\ expCheck' = [tok |-> tokenFile, at |-> now, answer |-> answer]
                  /\ IF answer = "False"
                     THEN /\ AcqReturn(tokenFile, "cached")
                          /\ UNCHANGED flowRuns
                     ELSE IF answer = "True"
                     THEN StartFlow
                     ELSE /\ AcqFail(answer)
                          /\ UNCHANGED <<flowRuns, tokenFile, tokenMode>>
       ELSE /\ StartFlow
            /\ UNCHANGED <<expCheck, disc>>
    /\ UNCHANGED <<impl, use_cache, apiKey, verbose, browser, port, runner, access_token,
                   elapsed, callerTok, client, clientsCreated, lastReq>>
    /\ UNCHANGED <<lastResp, capturedAt>>
    /\ UNCHANGED <<oauth, stateFile, cbState>>
    /\ UNCHANGED <<extVars, upVars, dlVars, now>>

\* The requests of the validation are all answered, or the first fails.
GetBearerTokenStart == GetBearerTokenStartWith(FALSE)

\* Each request of the validation is answered or fails.
GetBearerTokenStartAnyAnswer == GetBearerTokenStartWith(TRUE)

\* _get_bearer_token up to runner.setup(): the headless check (base.py only),
\* OIDC discovery, the callback application and its runner.
FlowSetupWith(anyAnswer) ==
    /\ tpc = "flow"
    /\ \/ /\ Headless
          /\ AcqFail("headless")
          /\ UNCHANGED <<runner, access_token, steps, capturedAt, oauth, cbState, disc>>
       \/ /\ ~Headless
          /\ steps' = [steps EXCEPT !.discovery = 1]
          /\ \E okInfo, okMeta \in BOOLEAN :
                /\ anyAnswer \/ okInfo = okMeta
                /\ WithinRequests(Discover(disc, okInfo, okMeta))
                /\ disc' = Discover(disc, okInfo, okMeta)
                /\ IF ~Discovered(disc')
                   THEN /\ AcqFail("discovery_error")
                        /\ UNCHANGED <<runner, access_token, capturedAt, oauth, cbState>>
                   ELSE /\ runner' = "setup"
                        /\ oauth' = StateAndNonce
                        /\ access_token' = NoTok
                        /\ cbState' = None
                        /\ capturedAt' = -1
                        /\ tpc' = "bind"
                        /\ UNCHANGED <<flowExit, authFault, acq, acqVal, callerPc>>
    /\ UNCHANGED <<impl, use_cache, apiKey, verbose, browser, port, tokenFile, tokenMode, elapsed,
                   flowRuns, callerTok, client, clientsCreated, lastReq>>
    /\ UNCHANGED <<lastResp, acqPre, expCheck>>
    /\ UNCHANGED stateFile
    /\ UNCHANGED <<extVars, upVars, dlVars, now>>

\* The discovery requests of the flow are all answered, or the first fails.
FlowSetup == FlowSetupWith(FALSE)

\* Each discovery request of the flow is answered or fails.
FlowSetupAnyAnswer == FlowSetupWith(TRUE)

\* site.start() with the browser opened before the failure is raised.
SiteStartOpensBrowser ==
    /\ tpc = "bind"
    /\ IF port = "free"
       THEN /\ port' = "ours"
            /\ tpc' = "browser"
            /\ steps' = [steps EXCEPT !.bind = @ + 1]
            /\ UNCHANGED <<runner, flowExit, authFault, acq, acqVal, callerPc>>
       ELSE /\ AcqFail("bind_error")
            /\ steps' = [steps EXCEPT !.bind = @ + 1, !.open = @ + 1]
            /\ UNCHANGED <<runner, port>>
    /\ UNCHANGED <<impl, use_cache, apiKey, verbose, browser, tokenFile, tokenMode, access_token,
                   elapsed, flowRuns, callerTok, client, clientsCreated, lastReq>>
    /\ UNCHANGED <<lastResp, capturedAt, acqPre, expCheck>>
    /\ UNCHANGED <<oauth, stateFile, cbState>>
    /\ UNCHANGED disc
    /\ UNCHANGED <<extVars, upVars, dlVars, now>>

\* site.start(): binds the callback port, or raises OSError when it is taken;
\* the except clause re-raises with a message that names the port, and nothing
\* cleans the runner up.
SiteStart ==
    /\ tpc = "bind"
    /\ steps' = [steps EXCEPT !.bind = @ + 1]
    /\ IF port = "free"
       THEN /\ port' = "ours"
            /\ tpc' = "browser"
            /\ UNCHANGED <<runner, flowExit, authFault, acq, acqVal, callerPc>>
       ELSE /\ AcqFail("bind_error")
            /\ UNCHANGED <<runner, port>>
    /\ UNCHANGED <<impl, use_cache, apiKey, verbose, browser, tokenFile, tokenMode, access_token,
                   elapsed, flowRuns, callerTok, client, clientsCreated, lastReq>>
    /\ UNCHANGED <<lastResp, capturedAt, acqPre, expCheck>>
    /\ UNCHANGED <<oauth, stateFile, cbState>>
    /\ UNCHANGED disc
    /\ UNCHANGED <<extVars, upVars, dlVars, now>>

\* webbrowser.open(auth_url), outside the try/finally: when it raises, the
\* site keeps the port.
OpenBrowser ==
    /\ tpc = "browser"
    /\ steps' = [steps EXCEPT !.open = @ + 1]
    /\ \/ /\ tpc' = "waiting"
          /\ elapsed' = 0
          /\ UNCHANGED <<port, flowExit, authFault, acq, acqVal, callerPc>>
       \/ /\ AcqFail("browser_error")
          /\ port' = "leaked"
          /\ UNCHANGED elapsed
    /\ UNCHANGED <<impl, use_cache, apiKey, verbose, browser, tokenFile, tokenMode, runner, access_token,
                   flowRuns, callerTok, client, clientsCreated, lastReq>>
    /\ UNCHANGED <<lastResp, capturedAt, acqPre, expCheck>>
    /\ UNCHANGED <<oauth, stateFile, cbState>>
    /\ UNCHANGED disc
    /\ UNCHANGED <<extVars, upVars, dlVars, now>>

\* OAuthCallback.handle_token: a GET /token reaches the listener while the
\* wait loop sleeps (or after a flow left the site running); the access_token
\* query parameter (or None) is stored.
HandleTokenWith(states) ==
    /\ tpc = "waiting" \/ port = "leaked"
    /\ \E t \in {NoTok, Token(flowRuns, now + TokenLifetime)}, st \in states :
          /\ <<t, st>> # <<access_token, cbState>>
          /\ access_token' = t
          /\ cbState' = st
          /\ capturedAt' = IF t # NoTok /\ tpc = "waiting" /\ capturedAt = -1
                           THEN elapsed
                           ELSE capturedAt
    /\ UNCHANGED <<impl, use_cache, apiKey, verbose, browser, port, tokenFile, tokenMode, acq, acqVal, tpc,
                   runner, elapsed, flowRuns, flowExit, authFault, callerPc, callerTok,
                   client, clientsCreated, lastReq>>
    /\ UNCHANGED <<lastResp, steps, acqPre, expCheck>>
    /\ UNCHANGED <<oauth, stateFile>>
    /\ UNCHANGED disc
    /\ UNCHANGED <<extVars, upVars, dlVars, now>>

\* A /token request that carries the state of the authorization URL, as the
\* callback page sends it after a redirect from the provider.
HandleToken == HandleTokenWith({oauth.state})

\* A /token request with that state or with none.
HandleTokenAnyState == HandleTokenWith({None, oauth.state})

\* Time passes while the wait loop sleeps.
WaitTick ==
    /\ tpc = "waiting"
    /\ elapsed <= OAUTH_TIMEOUT
    /\ \E d \in WaitSteps : elapsed' = elapsed + d
    /\ UNCHANGED <<impl, use_cache, apiKey, verbose, browser, port, tokenFile, tokenMode, acq, acqVal, tpc,
                   runner, access_token, flowRuns, flowExit, authFault, callerPc, callerTok,
                   client, clientsCreated, lastReq>>
    /\ UNCHANGED <<lastResp, steps, capturedAt, acqPre, expCheck>>
    /\ UNCHANGED <<oauth, stateFile, cbState>>
    /\ UNCHANGED disc
    /\ UNCHANGED <<extVars, upVars, dlVars, now>>

\* The wait loop sees a token or the timeout; the state file is saved
\* (base.py only), the value is returned and the finally clause runs
\* runner.cleanup().
WaitLoopExit ==
    /\ tpc = "waiting"
    /\ \/ /\ access_token # NoTok
          /\ \/ /\ AcqReturn(access_token, "token")
                /\ stateFile' = IF impl = "base"
                                THEN [state |-> cbState, nonce |-> oauth.nonce]
                                ELSE stateFile
             \/ /\ impl = "base"
                /\ AcqFail("save_error")
                /\ UNCHANGED <<tokenFile, tokenMode, stateFile>>
       \/ /\ access_token = NoTok
          /\ elapsed > OAUTH_TIMEOUT
          /\ AcqFail("timeout")
          /\ UNCHANGED <<tokenFile, tokenMode, stateFile>>
    /\ runner' = "cleaned"
    /\ port' = "free"
    /\ UNCHANGED <<impl, use_cache, apiKey, verbose, browser, access_token, elapsed, flowRuns,
                   callerTok, client, clientsCreated, lastReq>>
    /\ UNCHANGED <<lastResp, steps, capturedAt, acqPre, expCheck>>
    /\ UNCHANGED <<oauth, cbState>>
    /\ UNCHANGED disc
    /\ UNCHANGED <<extVars, upVars, dlVars, now>>

\* The request client of one BaseClient whose token file holds a token that
\* stays valid: any credentials, any error mode, any response.
RequestInit ==
    /\ now = 0
    /\ impl = "base"
    /\ use_cache = TRUE
    /\ apiKey \in BOOLEAN
    /\ browser = "ok"
    /\ port = "free"
    /\ tokenFile = Token(0, MaxTime + 1)
    /\ tokenMode = ModeFound
    /\ acq = "empty"
    /\ acqVal = NoTok
    /\ tpc = "idle"
    /\ runner = "none"
    /\ access_token = NoTok
    /\ elapsed = 0
    /\ flowRuns = 0
    /\ flowExit = "none"
    /\ authFault = FALSE
    /\ callerPc = [c \in Callers |-> "idle"]
    /\ callerTok = [c \in Callers |-> NoTok]
    /\ client = NoClient
    /\ clientsCreated = 0
    /\ lastReq = NoReq
    /\ verbose \in BOOLEAN
    /\ lastResp = NoResp
    /\ steps = NoSteps
    /\ capturedAt = -1
    /\ acqPre = NoPre
    /\ expCheck = NoCheck
    /\ oauth = NoOAuth
    /\ stateFile = NoState
    /\ cbState = None
    /\ disc = NoDisc

RequestNext ==
    \/ \E c \in Callers : CallGetToken(c)
    \/ \E c \in Callers : ResumeWithToken(c)
    \/ \E c \in Callers : Request(c)
    \/ GetBearerTokenStart
    \/ Tick

\* One process that has to log in: no API key, no token file.
FlowInit ==
    /\ now = 0
    /\ impl \in Impls
    /\ use_cache \in BOOLEAN
    /\ apiKey = FALSE
    /\ browser = "ok"
    /\ port \in {"free", "other"}
    /\ tokenFile = NoTok
    /\ tokenMode = ModeFound
    /\ acq = "empty"
    /\ acqVal = NoTok
    /\ tpc = "idle"
    /\ runner = "none"
    /\ access_token = NoTok
    /\ elapsed = 0
    /\ flowRuns = 0
    /\ flowExit = "none"
    /\ authFault = FALSE
    /\ callerPc = [c \in Callers |-> "idle"]
    /\ callerTok = [c \in Callers |-> NoTok]
    /\ client = NoClient
    /\ clientsCreated = 0
    /\ lastReq = NoReq
    /\ verbose = FALSE
    /\ lastResp = NoResp
    /\ steps = NoSteps
    /\ capturedAt = -1
    /\ acqPre = NoPre
    /\ expCheck = NoCheck
    /\ oauth = NoOAuth
    /\ stateFile = NoState
    /\ cbState = None
    /\ disc = NoDisc

\* A BaseClient in a process that starts on the files earlier processes left
\* in the auth directory: a token file or none, an oauth_state.json or none.
ReloginInit ==
    /\ now = 0
    /\ impl = "base"
    /\ use_cache \in BOOLEAN
    /\ apiKey = FALSE
    /\ browser = "ok"
    /\ port = "free"
    /\ tokenFile \in {NoTok, Token(0, 0), Forged(0, 1), Malformed}
    /\ tokenMode = ModeFound
    /\ acq = "empty"
    /\ acqVal = NoTok
    /\ tpc = "idle"
    /\ runner = "none"
    /\ access_token = NoTok
    /\ elapsed = 0
    /\ flowRuns = 0
    /\ flowExit = "none"
    /\ authFault = FALSE
    /\ callerPc = [c \in Callers |-> "idle"]
    /\ callerTok = [c \in Callers |-> NoTok]
    /\ client = NoClient
    /\ clientsCreated = 0
    /\ lastReq = NoReq
    /\ verbose = FALSE
    /\ lastResp = NoResp
    /\ steps = NoSteps
    /\ capturedAt = -1
    /\ acqPre = NoPre
    /\ expCheck = NoCheck
    /\ oauth = NoOAuth
    /\ stateFile \in {NoState, EarlierState}
    /\ cbState = None
    /\ disc \in {NoDisc, Found(TRUE, TRUE)}

\* The logins of that process, without the requests that follow them.
ReloginNext ==
    \/ \E c \in Callers : CallGetToken(c)
    \/ \E c \in Callers : ResumeWithToken(c)
    \/ GetBearerTokenStartAnyAnswer
    \/ FlowSetupAnyAnswer
    \/ SiteStart
    \/ OpenBrowser
    \/ HandleTokenAnyState
    \/ WaitTick
    \/ WaitLoopExit

AuthNext ==
    \/ \E c \in Callers : CallGetToken(c)
    \/ \E c \in Callers : ResumeWithToken(c)
    \/ \E c \in Callers : SendRequest(c)
    \/ GetBearerTokenStart
    \/ FlowSetup
    \/ SiteStart
    \/ OpenBrowser
    \/ HandleToken
    \/ WaitTick
    \/ WaitLoopExit
    \/ Tick

\* ------------------------------------------------------------------------
\* Specifications
\* ------------------------------------------------------------------------
\* Nothing of the client lifecycle, of the shared cache file or of the teleop
\* signalling is in use, the part named `active` left out.
ExtIdle(active) ==
    /\ IF active = "close" THEN TRUE
       ELSE baseClient = [client |-> 0, client_no_auth |-> 0, pools |-> <<>>, op |-> "none"]
    /\ IF active = "race" THEN TRUE
       ELSE /\ cacheFile = [kind |-> "json", exists |-> FALSE, content |-> <<>>]
            /\ procs = <<>>
    /\ IF active = "teleop" THEN TRUE
       ELSE /\ rooms = [exists |-> FALSE, answer |-> FALSE,
                        offer_ice_candidates |-> <<>>,
                        answer_ice_candidates |-> <<>>]
            /\ peers = <<>>

UploadIdle ==
    /\ shot = NoShot
    /\ upKind = "krec"
    /\ file_size = 0
    /\ upPc = "idle"
    /\ create_response = [part_size |-> 0, presigned_urls |-> <<>>]
    /\ urlIdx = 1
    /\ filePos = 0
    /\ puts = <<>>
    /\ completed_parts = <<>>
    /\ completeCalls = <<>>
    /\ httpState = "NONE"
    /\ upErr = "none"
    /\ envFault = FALSE

DownloadIdle ==
    /\ dlKind = "none"
    /\ srvContent = "v1"
    /\ tgz = NoFile
    /\ info = NoInfo
    /\ krecInfo = "absent"
    /\ krecFile = NoFile
    /\ kimgInfo = "absent"
    /\ kimgFile = NoFile
    /\ urdfInfo = "absent"
    /\ unpack = NoDir
    /\ xlast = NoExtract
    /\ cacheFs = NoCache
    /\ rmLast = NoRemove
    /\ tokCoro = "none"
    /\ last = NoCall
    /\ prev = [op |-> "none", result |-> "none"]
    /\ changedSince = FALSE
    /\ tampered = FALSE

AuthIdle ==
    /\ now = 0
    /\ impl = "base"
    /\ use_cache = TRUE
    /\ apiKey = FALSE
    /\ browser = "ok"
    /\ port = "free"
    /\ tokenFile = NoTok
    /\ tokenMode = ModeFound
    /\ acq = "empty"
    /\ acqVal = NoTok
    /\ tpc = "idle"
    /\ runner = "none"
    /\ access_token = NoTok
    /\ elapsed = 0
    /\ flowRuns = 0
    /\ flowExit = "none"
    /\ authFault = FALSE
    /\ callerPc = [c \in Callers |-> "idle"]
    /\ callerTok = [c \in Callers |-> NoTok]
    /\ client = NoClient
    /\ clientsCreated = 0
    /\ lastReq = NoReq
    /\ verbose = FALSE
    /\ lastResp = NoResp
    /\ steps = NoSteps
    /\ capturedAt = -1
    /\ acqPre = NoPre
    /\ expCheck = NoCheck
    /\ oauth = NoOAuth
    /\ stateFile = NoState
    /\ cbState = None
    /\ disc = NoDisc

\* ------------------------------------------------------------------------
\* BaseClient: the two lazily built AsyncClients and close()
\* ------------------------------------------------------------------------
\* How many AsyncClients one BaseClient may build.
MaxPools == 6

\* BaseClient.get_client(auth=auth), as _request calls it. `pools` lists every
\* AsyncClient built so far, "open" or "closed"; client and client_no_auth
\* hold the index of the one referenced, 0 for None. Building the
\* authenticated client needs the API key or get_bearer_token(), which may
\* raise.
GetClient(auth) ==
    /\ LET slot == IF auth THEN baseClient.client ELSE baseClient.client_no_auth
           built == Len(baseClient.pools) + 1
       IN IF slot # 0
          THEN baseClient' = [baseClient EXCEPT !.op = "reused"]
          ELSE /\ built <= MaxPools
               /\ \/ /\ auth
                     /\ baseClient' = [baseClient EXCEPT !.op = "token_error"]
                  \/ baseClient' =
                        [client |-> IF auth THEN built ELSE baseClient.client,
                         client_no_auth |-> IF auth THEN baseClient.client_no_auth ELSE built,
                         pools |-> Append(baseClient.pools, "open"),
                         op |-> "built"]
    /\ UNCHANGED <<cacheFile, procs, rooms, peers>>
    /\ UNCHANGED <<upVars, dlVars, authVars, now>>

\* BaseClient.close(), also what __aexit__ runs.
CloseClient ==
    /\ baseClient' =
          IF baseClient.client # 0
          THEN [baseClient EXCEPT !.pools[baseClient.client] = "closed",
                                  !.client = 0,
                                  !.op = "closed"]
          ELSE [baseClient EXCEPT !.op = "closed"]
    /\ UNCHANGED <<cacheFile, procs, rooms, peers>>
    /\ UNCHANGED <<upVars, dlVars, authVars, now>>

CloseNext ==
    \/ \E auth \in BOOLEAN : GetClient(auth)
    \/ CloseClient

InitClose ==
    /\ baseClient = [client |-> 0, client_no_auth |-> 0, pools |-> <<>>, op |-> "none"]
    /\ ExtIdle("close")
    /\ UploadIdle
    /\ DownloadIdle
    /\ AuthIdle
    /\ now = 0

\* ------------------------------------------------------------------------
\* teleop: WebRTCClient against WebRTCSignalingServer, one room
\* ------------------------------------------------------------------------
\* How many ICE candidates one peer connection gathers.
MaxCandidates == 2

\* WebRTCClient.create_offer and the server's handle_offer: the room is
\* created unless it exists.
CreateOffer ==
    /\ peers["offerer"].pc = "start"
    /\ rooms' = IF rooms.exists THEN rooms
                ELSE [exists |-> TRUE, answer |-> FALSE,
                      offer_ice_candidates |-> <<>>,
                      answer_ice_candidates |-> <<>>]
    /\ peers' = [peers EXCEPT !["offerer"].pc = "waiting"]
    /\ UNCHANGED <<baseClient, cacheFile, procs>>
    /\ UNCHANGED <<upVars, dlVars, authVars, now>>

\* The joining client of run_client: GET /offer/{room}, then POST /answer
\* (handle_get_offer, handle_answer). Without an offer the client returns.
SendAnswer ==
    /\ peers["answerer"].pc = "start"
    /\ IF rooms.exists
       THEN /\ rooms' = [rooms EXCEPT !.answer = TRUE]
            /\ peers' = [peers EXCEPT !["answerer"].pc = "connected"]
       ELSE /\ rooms' = rooms
            /\ peers' = [peers EXCEPT !["answerer"].pc = "no_offer"]
    /\ UNCHANGED <<baseClient, cacheFile, procs>>
    /\ UNCHANGED <<upVars, dlVars, authVars, now>>

\* WebRTCClient.wait_for_answer, the poll that finds the answer.
WaitForAnswer ==
    /\ peers["offerer"].pc = "waiting"
    /\ rooms.exists /\ rooms.answer
    /\ peers' = [peers EXCEPT !["offerer"].pc = "connected"]
    /\ UNCHANGED <<baseClient, cacheFile, procs, rooms>>
    /\ UNCHANGED <<upVars, dlVars, authVars, now>>

\* on_ice_candidate -> send_ice_candidate(candidate, is_offer=self.is_offerer)
\* and the server's handle_ice_candidate. The event fires once the local
\* description is set: for the offerer from create_offer on, for the answerer
\* once it has answered. A candidate for a room that does not exist is
\* dropped by the server.
SendIceCandidate(role) ==
    /\ peers[role].posted < MaxCandidates
    /\ role = "answerer" => peers[role].pc \in {"connected", "done"}
    /\ LET is_offerer == role = "offerer"
           \* the JSON body carries the boolean as it is
           is_offer == is_offerer
           candidate == [by |-> role, n |-> peers[role].posted + 1]
       IN /\ peers' = [peers EXCEPT ![role].posted = @ + 1]
          /\ rooms' =
                IF ~rooms.exists THEN rooms
                ELSE IF is_offer
                     THEN [rooms EXCEPT !.offer_ice_candidates = Append(@, candidate)]
                     ELSE [rooms EXCEPT !.answer_ice_candidates = Append(@, candidate)]
    /\ UNCHANGED <<baseClient, cacheFile, procs>>
    /\ UNCHANGED <<upVars, dlVars, authVars, now>>

\* WebRTCClient.get_ice_candidates and the server's handle_ice_candidates.
\* `got` is the list of the response, each entry of which the client adds to
\* its peer connection; `theirs` records what the server held of the other
\* peer's candidates when it answered.
GetIceCandidates(role) ==
    /\ peers[role].pc = "connected"
    /\ LET is_offerer == role = "offerer"
           is_offer_param == IF is_offerer THEN "false" ELSE "true"
           \* request.query.get("isOffer", "false").lower() == "true"
           is_offer == is_offer_param \in {"true", "True", "TRUE"}
           candidates == IF ~rooms.exists THEN <<>>
                         ELSE IF is_offer THEN rooms.answer_ice_candidates
                              ELSE rooms.offer_ice_candidates
           posted_by_other == IF ~rooms.exists THEN <<>>
                              ELSE IF is_offerer THEN rooms.answer_ice_candidates
                                   ELSE rooms.offer_ice_candidates
       IN peers' = [peers EXCEPT ![role].pc = "done",
                                 ![role].got = candidates,
                                 ![role].theirs = posted_by_other]
    /\ UNCHANGED <<baseClient, cacheFile, procs, rooms>>
    /\ UNCHANGED <<upVars, dlVars, authVars, now>>

TeleopNext ==
    \/ CreateOffer
    \/ SendAnswer
    \/ WaitForAnswer
    \/ \E role \in {"offerer", "answerer"} : SendIceCandidate(role)
    \/ \E role \in {"offerer", "answerer"} : GetIceCandidates(role)

InitTeleop ==
    /\ rooms = [exists |-> FALSE, answer |-> FALSE,
                offer_ice_candidates |-> <<>>, answer_ice_candidates |-> <<>>]
    /\ peers = [role \in {"offerer", "answerer"} |->
                  [pc |-> "start", posted |-> 0, got |-> <<>>, theirs |-> <<>>]]
    /\ ExtIdle("teleop")
    /\ UploadIdle
    /\ DownloadIdle
    /\ AuthIdle
    /\ now = 0

\* ------------------------------------------------------------------------
\* Two CLI processes on one cache file of the auth directory
\* ------------------------------------------------------------------------
\* The longest content, in chunks, one process writes to the file.
MaxChunks == 2

\* A complete content: every chunk of one writer, as many as that writer
\* writes. Writer 0 is the process that left the file there before.
Complete(content) ==
    \E w \in 0..2 :
        content = [i \in 1..(IF w = 0 THEN MaxChunks ELSE procs[w].len) |-> w]

\* `if self.use_cache and cache_path.exists()`
CacheExists(p) ==
    /\ procs[p].pc = "check"
    /\ procs' = [procs EXCEPT ![p].pc = IF cacheFile.exists THEN "read" ELSE "fetch"]
    /\ UNCHANGED <<baseClient, cacheFile, rooms, peers>>
    /\ UNCHANGED <<upVars, dlVars, authVars, now>>

\* json.load(f) of the two JSON files, cache_path.read_text() followed by
\* _is_token_expired(token) of bearer_token.txt: content that is not the
\* whole of what one process wrote does not parse.
CacheRead(p) ==
    /\ procs[p].pc = "read"
    /\ procs' = [procs EXCEPT
                   ![p].pc = "done",
                   ![p].got = cacheFile.content,
                   ![p].err = IF Complete(cacheFile.content) THEN "none"
                              ELSE IF cacheFile.kind = "json" THEN "JSONDecodeError"
                              ELSE "DecodeError"]
    /\ UNCHANGED <<baseClient, cacheFile, rooms, peers>>
    /\ UNCHANGED <<upVars, dlVars, authVars, now>>

\* The request or login that produces the content, then open(cache_path, "w")
\* (write_text opens the same way): the file is created or truncated to
\* nothing before anything is written.
CacheOpenW(p) ==
    /\ procs[p].pc = "fetch"
    /\ procs' = [procs EXCEPT ![p].pc = "write"]
    /\ cacheFile' = [cacheFile EXCEPT !.exists = TRUE, !.content = <<>>]
    /\ UNCHANGED <<baseClient, rooms, peers>>
    /\ UNCHANGED <<upVars, dlVars, authVars, now>>

\* json.dump(data, f) / write of the token, flushed when the file is closed:
\* the bytes go to offset 0 of the open file, whatever another process has
\* written behind them stays.
CacheWrite(p) ==
    /\ procs[p].pc = "write"
    /\ LET mine == [i \in 1..procs[p].len |-> p]
           rest == SubSeq(cacheFile.content, procs[p].len + 1, Len(cacheFile.content))
       IN /\ cacheFile' = [cacheFile EXCEPT !.content = mine \o rest]
          /\ procs' = [procs EXCEPT ![p].pc = "done", ![p].got = mine]
    /\ UNCHANGED <<baseClient, rooms, peers>>
    /\ UNCHANGED <<upVars, dlVars, authVars, now>>

RaceNext ==
    \/ \E p \in 1..2 : CacheExists(p)
    \/ \E p \in 1..2 : CacheRead(p)
    \/ \E p \in 1..2 : CacheOpenW(p)
    \/ \E p \in 1..2 : CacheWrite(p)

\* The file is absent or holds what an earlier process wrote. The two JSON
\* files get the same document from both processes; two logins get two
\* tokens, whose lengths may differ.
InitRace ==
    /\ \E kind \in {"json", "token"}, had \in BOOLEAN :
          cacheFile = [kind |-> kind, exists |-> had,
                       content |-> IF had THEN [i \in 1..MaxChunks |-> 0] ELSE <<>>]
    /\ \E l1, l2 \in 1..MaxChunks :
          /\ cacheFile.kind = "json" => l1 = MaxChunks /\ l2 = MaxChunks
          /\ procs = [p \in 1..2 |->
                        [pc |-> "check", len |-> IF p = 1 THEN l1 ELSE l2,
                         got |-> <<>>, err |-> "none"]]
    /\ ExtIdle("race")
    /\ UploadIdle
    /\ DownloadIdle
    /\ AuthIdle
    /\ now = 0

InitUpload ==
    /\ ExtIdle("none")
    /\ UploadInit
    /\ DownloadIdle
    /\ AuthIdle

InitDownload ==
    /\ ExtIdle("none")
    /\ DownloadInit
    /\ UploadIdle
    /\ AuthIdle

InitExtract ==
    /\ ExtIdle("none")
    /\ ExtractInit
    /\ UploadIdle
    /\ AuthIdle

InitCache ==
    /\ ExtIdle("none")
    /\ CacheInit
    /\ UploadIdle
    /\ AuthIdle

Init ==
    /\ ExtIdle("none")
    /\ AuthInit
    /\ UploadIdle
    /\ DownloadIdle

InitLive ==
    /\ ExtIdle("none")
    /\ FlowInit
    /\ UploadIdle
    /\ DownloadIdle

InitRequest ==
    /\ ExtIdle("none")
    /\ RequestInit
    /\ UploadIdle
    /\ DownloadIdle

InitRelogin ==
    /\ ExtIdle("none")
    /\ ReloginInit
    /\ UploadIdle
    /\ DownloadIdle

SpecClose == InitClose /\ [][CloseNext]_vars

SpecTeleop == InitTeleop /\ [][TeleopNext]_vars

SpecRace == InitRace /\ [][RaceNext]_vars

SpecUpload == InitUpload /\ [][UploadNext]_vars

SpecDownload == InitDownload /\ [][DownloadNext]_vars

SpecExtract == InitExtract /\ [][ExtractNext]_vars

SpecCache == InitCache /\ [][CacheNext]_vars

Spec == Init /\ [][AuthNext]_vars

\* The event loop keeps running the coroutine that waits for the callback:
\* asyncio.sleep(0.1) returns and the loop condition is evaluated again.
SpecLive == InitLive /\ [][AuthNext]_vars /\ WF_vars(WaitTick) /\ WF_vars(WaitLoopExit)

SpecRequest == InitRequest /\ [][RequestNext]_vars

SpecRelogin == InitRelogin /\ [][ReloginNext]_vars

\* ------------------------------------------------------------------------
\* Properties
\* ------------------------------------------------------------------------

\* C1: when the environment makes no acquisition fail, the OAuth flow runs at
\* most once in the process, no caller of get_bearer_token gets an exception,
\* and all callers that received a token received the same one.
C1_SingleFlight ==
    ~authFault =>
        /\ flowRuns <= 1
        /\ \A c \in Callers : callerPc[c] # "raised"
        /\ \A c, d \in Callers :
              (callerTok[c] # NoTok /\ callerTok[d] # NoTok) => callerTok[c] = callerTok[d]

\* C2: every authenticated request sent with a bearer token carries a token
\* whose exp is later than the time the request is sent.
C2_FreshTokenOnEveryRequest ==
    lastReq.kind = "bearer" => lastReq.tok.exp > lastReq.at

PartNumbers(parts) == [i \in 1..Len(parts) |-> parts[i].part_number]

\* C3: an upload on which the server follows its contract and no request is
\* answered with a failure ends with ceil(S/P) part PUTs and one completion
\* call whose part list is 1, 2, ..., ceil(S/P).
C3_PartCount ==
    (upPc \in {"done", "failed"} /\ ~envFault /\ ServerConforms) =>
        /\ upPc = "done"
        /\ Len(puts) = ExpectedParts
        /\ Len(completeCalls) = 1
        /\ PartNumbers(completeCalls[1]) = [i \in 1..ExpectedParts |-> i]

\* C4: a failed part PUT is the last PUT of the upload, its error leaves the
\* upload function and the completion endpoint is never called; a completion
\* call is sent only when every part PUT succeeded and yielded an ETag, and it
\* lists exactly the completed parts.
C4_CompleteOnlyAfterAllParts ==
    /\ \A i \in 1..Len(puts) :
          puts[i].outcome # "ok" =>
              /\ i = Len(puts)
              /\ upPc = "failed"
              /\ upErr = puts[i].outcome
              /\ completeCalls = <<>>
    /\ completeCalls # <<>> =>
          /\ \A i \in 1..Len(puts) : puts[i].outcome = "ok"
          /\ Len(completed_parts) = Len(puts)
          /\ completeCalls = <<completed_parts>>

\* A K-Rec upload whose second or later part PUT came back without an ETag.
C4_Witness ==
    /\ upKind = "krec"
    /\ Len(puts) >= 2
    /\ puts[Len(puts)].outcome = "no_etag"
    /\ upPc = "failed"

\* C5: as long as nothing but download_compressed_urdf writes the cache, a
\* call that returned a path leaves the sidecar in place, and whenever
\* robot.tgz and the sidecar both exist the sidecar's md5_hash is the MD5 of
\* the bytes in robot.tgz.
C5_SidecarMatchesArchive ==
    ~tampered =>
        /\ (last.op = "urdf" /\ last.result = "path") => info.exists
        /\ (tgz.exists /\ info.exists) => info.md5_hash = QuotedHex(MD5(tgz.content))

\* C6: after a download_compressed_urdf call that failed on an MD5 mismatch
\* there is no robot.tgz at the cache path.
C6_MismatchLeavesNoArchive ==
    (last.op = "urdf" /\ last.outcome = "mismatch") => ~tgz.exists

\* C7: download_compressed_urdf with cache=False never returns an archive
\* whose bytes were altered on disk.
C7_NoCacheNeverReturnsAltered ==
    (last.op = "urdf" /\ ~last.cache /\ last.result = "path") => last.returned # "altered"

\* C8: a download call that follows a successful call of the same operation,
\* with no change on the server or on disk in between (for the URDF: cache=True
\* and the file inside the refresh interval), returns the path and issues no
\* HTTP request.
C8_SecondCallNoHttp ==
    (/\ last.op # "none"
     /\ prev.op = last.op
     /\ prev.result = "path"
     /\ last.quietBefore
     /\ (last.op = "urdf" => (last.cache /\ ~last.preStale)))
    => /\ last.result = "path"
       /\ last.metaReq + last.byteGets + last.authReq = 0

\* C9 as stated: with cache=True a stale robot.tgz is not served from the
\* fast path and a call that returns it has downloaded the archive again; a
\* younger file is returned without any HTTP request.
C9_StaleIsRefetched ==
    (last.op = "urdf" /\ last.cache /\ last.preExists) =>
        IF last.preStale
        THEN /\ last.outcome # "fast_path"
             /\ (last.result = "path" => last.byteGets = 1)
        ELSE /\ last.result = "path"
             /\ last.metaReq + last.byteGets = 0

\* C9 as amended: with cache=True a stale robot.tgz is not served from the
\* fast path: the metadata is requested from the server, and the archive is
\* downloaded again exactly when the sidecar is missing or records another
\* hash than the server declares; a younger file is returned without any HTTP
\* request.
C9_StalenessPolicy ==
    (last.op = "urdf" /\ last.cache /\ last.preExists) =>
        IF last.preStale
        THEN /\ last.outcome # "fast_path"
             /\ last.metaReq = 1
             /\ (last.outcome # "meta_error" => (last.byteGets = 1 <=> ~last.preInfoMatch))
        ELSE /\ last.outcome = "fast_path"
             /\ last.result = "path"
             /\ last.metaReq + last.byteGets = 0

\* A stale archive whose hash the server still declares: touched and returned.
C9_Witness ==
    /\ last.op = "urdf"
    /\ last.cache
    /\ last.preStale
    /\ last.outcome = "touched"

\* C10: once _get_bearer_token has ended after its runner was set up, the
\* runner has been cleaned up and the process no longer holds the callback port.
C10_ListenerTornDown ==
    (tpc = "idle" /\ flowExit \in {"token", "timeout", "bind_error", "browser_error", "save_error"})
    => (runner = "cleaned" /\ port \notin {"ours", "leaked"})

\* C11: a flow that reached its wait loop always ends; it ends by returning
\* a token when /token stored an access_token within the first 30 seconds of
\* the wait, and by raising TimeoutError, more than 30 seconds into the wait,
\* when /token never stored one.
C11_FlowTerminates ==
    /\ []((tpc = "idle" /\ flowExit \in {"token", "timeout"}) =>
             /\ (capturedAt >= 0 /\ capturedAt <= OAUTH_TIMEOUT) =>
                    (flowExit = "token" /\ acqVal # NoTok)
             /\ capturedAt = -1 => (flowExit = "timeout" /\ elapsed > OAUTH_TIMEOUT))
    /\ (tpc = "waiting" ~> tpc = "idle")

\* C12 as stated: an acquisition that did not fail on the validation of the
\* cached token returns the cached token, without entering the flow, exactly
\* when use_cache is set and the token file held an unexpired token; in every
\* other case the flow is entered and the token it returns is in the token file
\* afterwards.
C12_FlowResultAlwaysPersisted ==
    (/\ acqPre.started
     /\ tpc = "idle"
     /\ flowExit \notin {"none", "PyJWKClientError", "InvalidSignatureError"})
    => IF use_cache /\ acqPre.fresh
       THEN /\ flowExit = "cached"
            /\ acqVal = acqPre.file
            /\ steps = NoSteps
       ELSE /\ flowExit # "cached"
            /\ flowExit = "token" => tokenFile = acqVal

\* C12 as amended: the same, except that the token the flow returns is written
\* to the token file only when use_cache is set; with use_cache unset the
\* token file is left as it was.
C12_CachePath ==
    (/\ acqPre.started
     /\ tpc = "idle"
     /\ flowExit \notin {"none", "PyJWKClientError", "InvalidSignatureError"})
    => IF use_cache /\ acqPre.fresh
       THEN /\ flowExit = "cached"
            /\ acqVal = acqPre.file
            /\ tokenFile = acqPre.file
            /\ steps = NoSteps
       ELSE /\ flowExit # "cached"
            /\ flowExit = "token" =>
                  /\ acqVal # NoTok
                  /\ tokenFile = IF use_cache THEN acqVal ELSE acqPre.file

\* A flow returned a token while use_cache is unset and a token file exists.
C12_Witness ==
    /\ tpc = "idle"
    /\ flowExit = "token"
    /\ ~use_cache
    /\ acqPre.file # NoTok
    /\ tokenFile # acqVal

\* C13 as stated: _is_token_expired answers True for every token whose exp is
\* in the past, and False for every token with a valid signature whose exp is
\* in the future.
C13_ExpiredIffPast ==
    expCheck.answer \notin {"none", "PyJWKClientError"} =>
        /\ expCheck.tok.exp < expCheck.at => expCheck.answer = "True"
        /\ (expCheck.tok.sig = "valid" /\ expCheck.tok.exp > expCheck.at) =>
               expCheck.answer = "False"

\* C13 as amended: for a token with a valid signature _is_token_expired
\* answers True when its exp is in the past and False when its exp is in the
\* future; for a token whose signature does not verify it answers nothing and
\* raises the verification error, whatever the exp.
C13_ExpiredIffPastWhenSigned ==
    expCheck.answer \notin {"none", "PyJWKClientError"} =>
        /\ (expCheck.tok.sig = "valid" /\ expCheck.tok.exp < expCheck.at) =>
               expCheck.answer = "True"
        /\ (expCheck.tok.sig = "valid" /\ expCheck.tok.exp > expCheck.at) =>
               expCheck.answer = "False"
        /\ expCheck.tok.sig # "valid" => expCheck.answer = "InvalidSignatureError"

\* A signed token whose exp is in the past was checked.
C13_Witness ==
    /\ expCheck.tok.sig = "valid"
    /\ expCheck.tok.exp < expCheck.at
    /\ expCheck.answer = "True"

\* C14: a BaseClient in a process with KSCALE_API_KEY set sends its
\* authenticated requests with the API-key header and no bearer token, and
\* nothing of the OAuth machinery runs: the token file is not read, no token is
\* validated, no discovery is made, no listener is bound, no browser opened.
C14_ApiKeyBypassesOAuth ==
    (impl = "base" /\ apiKey) =>
        /\ lastReq.kind \in {"none", "apikey"}
        /\ lastReq.tok = NoTok
        /\ client.kind \in {"none", "apikey"}
        /\ acq = "empty"
        /\ tpc = "idle"
        /\ ~acqPre.started
        /\ expCheck = NoCheck
        /\ steps = NoSteps
        /\ flowRuns = 0
        /\ runner = "none"
        /\ port \notin {"ours", "leaked"}

\* A request was sent with the API key.
C14_Witness ==
    /\ impl = "base"
    /\ apiKey
    /\ lastReq.kind = "apikey"

\* C15: one BaseClient builds at most one authenticated httpx.AsyncClient.
C15_OneClientPerMode ==
    impl = "base" => clientsCreated <= 1

\* C16: _request never returns a value for a response that is not 2xx: it
\* raises the HTTP status error when KSCALE_VERBOSE_ERROR is 1 and ends the
\* process with exit status 1 otherwise, whatever the body.
C16_ErrorNeverReturns ==
    lastResp.status \notin {"none", "2xx"} =>
        lastResp.result = IF verbose THEN "HTTPStatusError" ELSE "exit1"

\* C17: a flow goes on to the browser only with the callback port bound by its
\* single site.start(); when the port is taken the flow ends with the OSError
\* naming the port after that one bind attempt, with no browser opened and the
\* port not held by this flow.
C17_PortBusyIsFatal ==
    /\ tpc \in {"browser", "waiting"} => (port = "ours" /\ steps.bind = 1)
    /\ (tpc = "idle" /\ flowExit = "bind_error") =>
          /\ steps.bind = 1
          /\ steps.open = 0
          /\ port # "ours"

\* A flow failed on a port another process holds.
C17_Witness ==
    /\ tpc = "idle"
    /\ flowExit = "bind_error"
    /\ port = "other"

\* C18: a BaseClient in a headless environment never gets past the headless
\* check of _get_bearer_token: the flow ends with the RuntimeError that points
\* to KSCALE_API_KEY, and no discovery was made, no listener bound, no browser
\* opened.
C18_HeadlessFailsFast ==
    /\ (impl = "base" /\ browser = "null") =>
          /\ tpc \in {"idle", "start", "flow"}
          /\ steps = NoSteps
          /\ runner = "none"
          /\ port \notin {"ours", "leaked"}
          /\ flowExit \in {"none", "cached", "headless",
                           "PyJWKClientError", "InvalidSignatureError"}
    /\ flowExit = "headless" => (impl = "base" /\ browser = "null")

\* A flow ended on the headless check.
C18_Witness ==
    /\ tpc = "idle"
    /\ flowExit = "headless"
    /\ flowRuns >= 1

\* C19: after a download_krec call whose streamed bytes did not hash to the
\* declared checksum, the call has raised, returned no path, and the file is
\* not in the cache directory.
C19_KRecMismatchUnlinks ==
    (last.op = "krec" /\ last.outcome = "mismatch") =>
        /\ last.result = "raise"
        /\ last.returned = "none"
        /\ ~krecFile.exists

\* A download_krec call ended on a checksum mismatch of the streamed bytes.
C19_Witness ==
    /\ last.op = "krec"
    /\ last.outcome = "mismatch"
    /\ last.byteGets = 1
    /\ krecInfo = "ok_checksum"

\* C20: a fetch_*_info call that finds the sidecar returns its content and
\* sends no request; one that does not find it sends one request and, when
\* it returns, has written what it returns to the sidecar; a call that follows
\* a call that returned sends no request.
C20_FetchInfoSidecar ==
    last.op \in {"kernel_info", "urdf_info", "krec_info"} =>
        /\ last.preSidecar =>
              /\ last.result = "info"
              /\ last.metaReq = 0
              /\ last.returned = Sidecar(last.op)
        /\ ~last.preSidecar =>
              /\ last.metaReq = 1
              /\ last.result = "info" =>
                    (Sidecar(last.op) # "absent" /\ last.returned = Sidecar(last.op))
        /\ (prev.op = last.op /\ prev.result = "info") => last.metaReq = 0

\* fetch_urdf_info answered from the sidecar after the server's record changed.
C20_Witness ==
    /\ last.op = "urdf_info"
    /\ last.preSidecar
    /\ last.metaReq = 0
    /\ last.returned # srvContent

\* C21: a download_and_extract_urdf(cache=False) call sends no GET for the
\* archive bytes when the archive's sidecar records the hash the server
\* declares; and once its download_compressed_urdf step returned, it removed
\* the extracted directory it found and extracted the archive again, also when
\* the extracted sidecar recorded the archive's checksum: nothing of the earlier
\* directory is left, and when the call returns the directory holds the members
\* of the archive and a sidecar with the archive's checksum.
C21_NoCacheReextracts ==
    (xlast.result # "none" /\ ~xlast.cache) =>
        /\ xlast.preInfoMatch => xlast.byteGets = 0
        /\ xlast.how \notin {"compressed_raise", "no_sidecar"} =>
              /\ xlast.preExists => xlast.removed
              /\ xlast.extracted
              /\ xlast.how # "reused"
              /\ unpack.exists
              /\ unpack.files \subseteq {xlast.archive}
              /\ xlast.result = "dir" =>
                    /\ unpack.files = {xlast.archive}
                    /\ unpack.md5_hash = xlast.expected_hash

\* cache=False found a directory extracted from the very archive the server
\* still declares, and extracted it again without a GET of the bytes.
C21_Witness ==
    /\ ~xlast.cache
    /\ xlast.result = "dir"
    /\ xlast.preExists
    /\ xlast.preMatch
    /\ xlast.preInfoMatch
    /\ xlast.removed
    /\ xlast.extracted
    /\ xlast.byteGets = 0

\* C22: a remove_local call raises nothing; called with an artifact id it
\* leaves that artifact's directory absent and every other artifact's
\* directory as it was; called with "all" (in any case) it leaves no cache
\* root; and a call that repeats the call before it on the filesystem that
\* call left leaves the filesystem the same.
C22_RemoveLocalIdempotent ==
    rmLast.target # "none" =>
        /\ ~rmLast.raised
        /\ rmLast.target \in ArtifactIds =>
              /\ rmLast.target \notin rmLast.post.dirs
              /\ rmLast.post.dirs \ {rmLast.target} = rmLast.pre.dirs \ {rmLast.target}
        /\ Lower(rmLast.target) = "all" => rmLast.post = NoCache
        /\ rmLast.repeat => rmLast.post = rmLast.prevPost

\* remove_local(id) was repeated while two other artifacts stay cached.
C22_Witness ==
    /\ rmLast.target \in ArtifactIds
    /\ rmLast.repeat
    /\ rmLast.target \notin rmLast.pre.dirs
    /\ rmLast.post.dirs = ArtifactIds \ {rmLast.target}

\* C23: the chunk PUT to the presigned URL numbered k is the file's bytes from
\* offset (k-1)*P up to min(k*P, S), P being the part size of the create
\* request and S the file size, whatever the create response lists.
C23_ChunkMatchesPartNumber ==
    \A i \in 1..Len(puts) :
        /\ puts[i].offset = (puts[i].part_number - 1) * DEFAULT_CHUNK_SIZE
        /\ puts[i].len = Min(DEFAULT_CHUNK_SIZE, file_size - puts[i].offset)

\* C24: an upload_krec whose create response lists a number of presigned URLs
\* other than ceil(file_size / part_size) never calls the completion endpoint
\* and never returns.
C24_UrlCountMismatchFails ==
    (/\ upKind = "krec"
     /\ create_response.part_size > 0
     /\ Len(create_response.presigned_urls) # CeilDiv(file_size, create_response.part_size))
    => (completeCalls = <<>> /\ upPc # "done")

\* C25: every entry (k, etag) of a completion request carries the ETag, its
\* quotes stripped, of the response to the PUT that was sent to the URL
\* numbered k, and that PUT succeeded; a part whose PUT response had no ETag
\* is in no completion request.
C25_ETagOfItsPart ==
    \A n \in 1..Len(completeCalls) :
        /\ \A j \in 1..Len(completeCalls[n]) :
              \E i \in 1..Len(puts) :
                 /\ puts[i].part_number = completeCalls[n][j].part_number
                 /\ puts[i].outcome = "ok"
                 /\ ETagHeader(puts[i].offset) = <<"\"", completeCalls[n][j].etag, "\"">>
        /\ \A i \in 1..Len(puts) :
              puts[i].outcome = "no_etag" =>
                 \A j \in 1..Len(completeCalls[n]) :
                    completeCalls[n][j].part_number # puts[i].part_number

\* A completion request that lists three parts.
C25_Witness ==
    /\ Len(completeCalls) = 1
    /\ Len(completeCalls[1]) = 3
    /\ Len(puts) = 3

\* C26: one invocation of BaseClient._get_bearer_token goes through discovery,
\* then binds the listener (once) and opens the browser (once), then waits;
\* once /token has stored an access token the flow stays captured until it
\* returns; it returns a token only after a capture, and it times out only
\* when it waited without ever having captured one.
C26_PhaseOrder ==
    impl = "base" =>
        /\ steps.bind <= 1 /\ steps.open <= 1
        /\ tpc = "bind" => steps = [discovery |-> 1, bind |-> 0, open |-> 0]
        /\ tpc = "browser" => steps = [discovery |-> 1, bind |-> 1, open |-> 0]
        /\ tpc = "waiting" =>
              /\ steps = [discovery |-> 1, bind |-> 1, open |-> 1]
              /\ capturedAt >= 0 => access_token # NoTok
        /\ (tpc = "idle" /\ flowExit = "token") =>
              /\ steps = [discovery |-> 1, bind |-> 1, open |-> 1]
              /\ capturedAt >= 0
        /\ (tpc = "idle" /\ flowExit = "timeout") =>
              /\ steps = [discovery |-> 1, bind |-> 1, open |-> 1]
              /\ capturedAt = -1

\* C27: the state and the nonce a BaseClient login attempt puts into its
\* authorization URL are generated for that attempt: neither is read from
\* oauth_state.json, neither is a value an earlier attempt sent.
C27_FreshStateAndNonce ==
    (impl = "base" /\ oauth # NoOAuth) =>
        /\ ~oauth.stateFromFile
        /\ ~oauth.nonceFromFile
        /\ oauth.state # EarlierState.state
        /\ oauth.nonce # EarlierState.nonce

\* C28: whenever get_bearer_token has written a token to bearer_token.txt, the
\* file has mode 0600, and it had mode 0600 from the moment write_text put the
\* token in it.
C28_TokenFileOwnerOnly ==
    tokenMode.written # "none" =>
        /\ tokenMode.mode = "0600"
        /\ tokenMode.written = "0600"

C30_OnlyExpiryIsExpired ==
    [][(/\ tpc = "start"
        /\ tpc' # "start"
        /\ impl = "base"
        /\ use_cache
        /\ tokenFile # NoTok)
       => /\ expCheck'.tok = tokenFile
          /\ expCheck'.answer = "True" =>
                (tokenFile.sig = "valid" /\ tokenFile.exp <= now)
          /\ expCheck'.answer \notin {"True", "False"} =>
                /\ expCheck'.answer \in {"DecodeError", "PyJWKClientError",
                                          "InvalidSignatureError"}
                /\ tpc' = "idle"
                /\ flowExit' = expCheck'.answer
                /\ authFault'
                /\ flowRuns' = flowRuns
                /\ acqVal' = NoTok
                /\ tokenFile' = tokenFile
                /\ \A c \in Callers : callerPc[c] = "awaiting" => callerPc'[c] = "raised"
          /\ tokenFile.sig # "valid" => expCheck'.answer \notin {"True", "False"}]_vars

\* A call that found text that is not a JWT in the cache file has ended: its
\* caller got DecodeError and no flow ran.
C30_Witness ==
    /\ impl = "base"
    /\ use_cache
    /\ tokenFile = Malformed
    /\ expCheck.tok = Malformed
    /\ expCheck.answer = "DecodeError"
    /\ flowExit = "DecodeError"
    /\ tpc = "idle"
    /\ flowRuns = 0
    /\ \E c \in Callers : callerPc[c] = "raised"

\* C31: a download_krec that failed on a malformed K-Rec info response (the
\* request was sent and the answer had no 'url' or no 'filename', or was no
\* object) has left no response.json behind, so the next call asks the server
\* again.
C31_MalformedInfoLeavesNothing ==
    (/\ last.op = "krec"
     /\ last.result = "raise"
     /\ last.outcome \in {"info_error", "invalid_format"}
     /\ last.metaReq = 1)
    => krecInfo = "absent"

\* C37: no download call that returns a path without downloading (a cache hit)
\* returns a file that an earlier, interrupted download left incompletely
\* written.
C37_InterruptedNeverServed ==
    (last.result = "path" /\ last.byteGets = 0) => last.returned # "partial"

\* C34: after download_and_extract_urdf has unpacked an archive and returned
\* the directory, the directory holds the members of that archive, a sidecar
\* recording that archive's checksum, and nothing extracted from another
\* archive. (robot.tgz altered on disk by something else is left aside.)
C34_OnlyCurrentArchive ==
    (xlast.result = "dir" /\ xlast.extracted /\ ~tampered) =>
        /\ unpack.exists
        /\ unpack.md5_hash = xlast.expected_hash
        /\ unpack.files = {xlast.archive}

\* C35: while a BaseClient flow waits with an access token captured, no step
\* clears or replaces the captured token, and the flow that returns a token
\* returns the captured one.
C35_CapturedTokenKept ==
    [][(impl = "base" /\ tpc = "waiting" /\ access_token # NoTok)
       => /\ tpc' = "waiting" => access_token' = access_token
          /\ (tpc' = "idle" /\ flowExit' = "token") => acqVal' = access_token]_vars

\* C36: a BaseClient flow that has returned the access token delivered to
\* /token got it with the state this invocation put into its authorization
\* URL.
C36_StateChecked ==
    (impl = "base" /\ tpc = "idle" /\ flowExit = "token" /\ oauth # NoOAuth) =>
        cbState = oauth.state

\* C39: from the first part to the completion call the AsyncClient of the
\* upload is open, and neither a part PUT nor the completion request is
\* refused by the client because of its lifecycle (RuntimeError of httpx: the
\* client is entered a second time, or is used after it was closed).
C39_ClientOpenThroughUpload ==
    /\ upPc \in {"parts", "complete"} => httpState = "OPENED"
    /\ upErr # "RuntimeError"

\* C33: a single-shot upload called with a missing file or with a file of the
\* wrong suffix (any case of .tgz for upload_robot_class_urdf, of .img for
\* upload_kernel_image) raises FileNotFoundError, respectively ValueError, and
\* has sent no request; called with a valid file it requests at most one
\* presigned URL and sends at most one PUT, of the whole file, after that
\* request, and when it returns it has done exactly one of each.
C33_ValidatedBeforeRequests ==
    LET quiet == shot.presigned = 0 /\ shot.puts = <<>> /\ shot.infos = 0
        wanted == IF shot.kind = "urdf" THEN ".tgz" ELSE ".img"
        badSuffix == SuffixLower(shot.suffix) # wanted
    IN shot.kind # "none" =>
          /\ (shot.path = "missing" /\ ~badSuffix) =>
                (shot.result = "FileNotFoundError" /\ quiet)
          /\ (shot.path # "missing" /\ badSuffix) =>
                (shot.result = "ValueError" /\ quiet)
          /\ (shot.path = "missing" /\ badSuffix) =>
                /\ shot.result = (IF shot.kind = "urdf" THEN "FileNotFoundError"
                                                        ELSE "ValueError")
                /\ quiet
          /\ (shot.path = "file" /\ ~badSuffix) =>
                /\ shot.presigned <= 1
                /\ Len(shot.puts) <= shot.presigned
                /\ \A i \in 1..Len(shot.puts) : shot.puts[i] = "whole"
                /\ shot.result = "returned" =>
                      (shot.presigned = 1 /\ shot.puts = <<"whole">>)

\* upload_kernel_image was called with an existing file that is no .img: it
\* raised ValueError and sent nothing.
C33_Witness ==
    /\ shot.kind = "kernel"
    /\ shot.path = "file"
    /\ shot.suffix = ".tgz"
    /\ shot.result = "ValueError"
    /\ shot.presigned = 0
    /\ shot.puts = <<>>

\* C38: when BaseClient.close() has run, no AsyncClient the BaseClient built is
\* still open and neither _client nor _client_no_auth refers to one.
C38_CloseClosesEveryClient ==
    baseClient.op = "closed" =>
        /\ baseClient.client = 0
        /\ baseClient.client_no_auth = 0
        /\ \A i \in 1..Len(baseClient.pools) : baseClient.pools[i] = "closed"

\* C40: a peer that has called get_ice_candidates received exactly the ICE
\* candidates the other peer of the room had posted, and none of its own.
C40_CandidatesOfTheOtherPeer ==
    \A role \in {"offerer", "answerer"} :
        peers[role].pc = "done" =>
            /\ peers[role].got = peers[role].theirs
            /\ \A i \in 1..Len(peers[role].got) : peers[role].got[i].by # role

\* C32: two processes racing on one cache file do not hurt each other: no
\* process fails on the file's content, a process that is done holds the
\* complete content one process wrote, and when both are done the file holds
\* the complete content one of them (or the earlier writer) wrote.
C32_RaceIsBenign ==
    /\ \A p \in 1..2 :
          /\ procs[p].err = "none"
          /\ procs[p].pc = "done" => Complete(procs[p].got)
    /\ (\A p \in 1..2 : procs[p].pc = "done") => Complete(cacheFile.content)

\* C32, second half alone: when both processes are done the file holds the
\* complete content of one writer.
C32_FinalContentComplete ==
    (\A p \in 1..2 : procs[p].pc = "done") => Complete(cacheFile.content)

====
